---------------------------- MODULE Spec2Model ----------------------------
(***************************************************************************)
(* Brewery medallion pipeline: bronze ingestion (paginated fetch, raw JSON *)
(* batch + metadata sidecar), silver transformation (normalisation,        *)
(* deduplication, overwrite of the curated partition), gold aggregation    *)
(* (three grouped tables), as state machines over the data-lake            *)
(* directories.                                                            *)
(***************************************************************************)
EXTENDS Integers, Sequences, FiniteSets, Bags, TLC

(***************************************************************************)
(* Bounds of the model.                                                    *)
(***************************************************************************)
\* APIConfig.per_page as configured for the run (BREWERY_API_PER_PAGE).
PerPage == 2
\* Longest scripted transport: pages the upstream answers before it runs dry.
MaxPages == 3

\* Latest clock reading, in seconds (datetime.now() has this resolution once
\* formatted as %Y%m%d_%H%M%S).
MaxTime == 2
\* Stage calls in one behaviour.
MaxCalls == 4
\* Longest text field, longest coordinate field of a generated record.
MaxStrLen == 4
MaxCoordLen == 2
\* Most records of a generated batch.
MaxBatch == 3

VARIABLES
    transport,      \* latest fetch: what the upstream answers, by page number
    loop,           \* latest fetch: locals of fetch_all_breweries (page, all_breweries) and its position
    requests,       \* latest fetch: the (page, per_page) requests issued so far, in order
    now,            \* the wall clock, in seconds
    calls,          \* number of stage calls made
    ret,            \* the last stage call: its arguments, what it returned or raised
    bronze,         \* {bronze_path}/date=D: the raw layer
    silver,         \* {silver_path}/date=D: the curated layer
    gold,           \* {gold_path}/date=D: the aggregated layer
    bucket,         \* the storage bucket: whether one is configured, its objects
    adapter,        \* a GcsStorage object: its fields, and what its calls did
    dag             \* the DAG run: its logical date, the state and tries of each task

fetchVars == <<transport, loop, requests>>
lakeVars == <<bronze, silver, gold, bucket, adapter, dag>>
vars == <<transport, loop, requests, now, calls, ret, bronze, silver, gold, bucket, adapter, dag>>

(***************************************************************************)
(* Generic helpers.                                                        *)
(***************************************************************************)
Min(a, b) == IF a < b THEN a ELSE b

RECURSIVE Flatten(_)
Flatten(ss) == IF ss = <<>> THEN <<>> ELSE Head(ss) \o Flatten(Tail(ss))

RECURSIVE SumLen(_)
SumLen(ss) == IF ss = <<>> THEN 0 ELSE Len(Head(ss)) + SumLen(Tail(ss))

SeqsUpTo(S, n) == UNION {[1..k -> S] : k \in 0..n}

(***************************************************************************)
(* Bronze: BreweryAPIClient.                                               *)
(***************************************************************************)
\* A transport answer: a page of records, or a requests.RequestException.
Page(recs) == [ok |-> TRUE, data |-> recs]
RequestException == [ok |-> FALSE, data |-> <<>>]

\* The record at position i of page p of a scripted upstream.
Rec(p, i) == <<p, i>>
PageOfLen(p, n) == Page([i \in 1..n |-> Rec(p, i)])

\* session.get + raise_for_status + response.json(): the upstream answers the
\* requested page; past the end of its data every page is empty.
fetch_breweries(tr, page, per_page) ==
    IF page \in DOMAIN tr THEN tr[page] ELSE Page(<<>>)

InitialLoop == [page |-> 1, all_breweries |-> <<>>, pc |-> "fetching"]

\* Mutant: a partial last page ends the loop before it is accumulated.
LoopBody_DropsPartialPage(st, response) ==
    IF ~response.ok THEN [st EXCEPT !.pc = "raised"]
    ELSE IF Len(response.data) < PerPage THEN [st EXCEPT !.pc = "returned"]
    ELSE [st EXCEPT !.all_breweries = st.all_breweries \o response.data,
                    !.page = st.page + 1]

\* Mutant: a failed request ends the loop with the pages fetched so far.
LoopBody_ReturnsPagesOnError(st, response) ==
    IF ~response.ok THEN [st EXCEPT !.pc = "returned"]
    ELSE IF Len(response.data) = 0 THEN [st EXCEPT !.pc = "returned"]
    ELSE IF Len(response.data) < PerPage
         THEN [st EXCEPT !.all_breweries = st.all_breweries \o response.data,
                         !.pc = "returned"]
         ELSE [st EXCEPT !.all_breweries = st.all_breweries \o response.data,
                         !.page = st.page + 1]

\* Mutant: only an empty page ends the loop.
LoopBody_StopsOnEmptyOnly(st, response) ==
    IF ~response.ok THEN [st EXCEPT !.pc = "raised"]
    ELSE IF Len(response.data) = 0 THEN [st EXCEPT !.pc = "returned"]
    ELSE [st EXCEPT !.all_breweries = st.all_breweries \o response.data,
                    !.page = st.page + 1]

\* One iteration of the while-loop of fetch_all_breweries on the answer to
\* the request for st.page.
LoopBody(st, response) ==
    IF ~response.ok THEN [st EXCEPT !.pc = "raised"]
    ELSE IF Len(response.data) = 0 THEN [st EXCEPT !.pc = "returned"]
    ELSE IF Len(response.data) < PerPage
         THEN [st EXCEPT !.all_breweries = st.all_breweries \o response.data,
                         !.pc = "returned"]
         ELSE [st EXCEPT !.all_breweries = st.all_breweries \o response.data,
                         !.page = st.page + 1]

\* fetch_all_breweries run to completion against transport tr.
RECURSIVE FetchLoop(_, _)
FetchLoop(tr, st) ==
    IF st.pc # "fetching" THEN st
    ELSE FetchLoop(tr, LoopBody(st, fetch_breweries(tr, st.page, PerPage)))

fetch_all_breweries(tr) == FetchLoop(tr, InitialLoop)

(***************************************************************************)
(* JSON / Spark values.  A nullable value is Null or Some(v).  A string is *)
(* a sequence of one-character strings, so that trim, upper, lower and     *)
(* regexp_replace are computed and not assumed.                            *)
(***************************************************************************)
Null == <<>>
Some(v) == <<v>>
IsNull(x) == x = Null
Val(x) == x[1]

Range(f) == {f[i] : i \in DOMAIN f}
SeqToBag(seq) == [x \in Range(seq) |-> Cardinality({i \in DOMAIN seq : seq[i] = x})]
\* Number of elements of bag B that lie in S.
CountIn(B, S) == BagCardinality([x \in S \cap DOMAIN B |-> B[x]])

Lowers == <<"a","b","c","d","e","f","g","h","i","j","k","l","m",
            "n","o","p","q","r","s","t","u","v","w","x","y","z">>
Uppers == <<"A","B","C","D","E","F","G","H","I","J","K","L","M",
            "N","O","P","Q","R","S","T","U","V","W","X","Y","Z">>
Digits == {"0","1","2","3","4","5","6","7","8","9"}

UpperChar(c) ==
    IF \E i \in DOMAIN Lowers : Lowers[i] = c
    THEN Uppers[CHOOSE i \in DOMAIN Lowers : Lowers[i] = c] ELSE c
LowerChar(c) ==
    IF \E i \in DOMAIN Uppers : Uppers[i] = c
    THEN Lowers[CHOOSE i \in DOMAIN Uppers : Uppers[i] = c] ELSE c

\* F.upper, F.lower
Upper(str) == [i \in DOMAIN str |-> UpperChar(str[i])]
Lower(str) == [i \in DOMAIN str |-> LowerChar(str[i])]

\* F.trim: removes the space characters (and only those) at both ends.
RECURSIVE LTrim(_)
LTrim(str) == IF str # <<>> /\ Head(str) = " " THEN LTrim(Tail(str)) ELSE str
RECURSIVE RTrim(_)
RTrim(str) ==
    IF str # <<>> /\ str[Len(str)] = " " THEN RTrim(SubSeq(str, 1, Len(str) - 1)) ELSE str
\* Mutant: only the leading spaces are removed.
Trim_LeadingOnly(str) == LTrim(str)
Trim(str) == RTrim(LTrim(str))

\* F.regexp_replace(col, " ", "_")
SpacesToUnderscores(str) == [i \in DOMAIN str |-> IF str[i] = " " THEN "_" ELSE str[i]]

\* F.concat_ws(sep, cols...): joins the non-null values; a null is skipped.
RECURSIVE ConcatWs(_, _)
ConcatWs(sep, cols) ==
    IF cols = <<>> THEN <<>>
    ELSE IF IsNull(Head(cols)) THEN ConcatWs(sep, Tail(cols))
    ELSE LET rest == Tail(cols)
             more == \E i \in DOMAIN rest : ~IsNull(rest[i])
         IN  Val(Head(cols)) \o (IF more THEN sep ELSE <<>>) \o ConcatWs(sep, rest)

\* col.cast(DoubleType()) of a string: the number it spells, Null when it
\* spells none.  The value is kept as the spelling with the blanks trimmed;
\* "NaN" and "Infinity" spell the non-finite doubles.
IsDecimal(str) ==
    LET body == IF str # <<>> /\ Head(str) \in {"-", "+"} THEN Tail(str) ELSE str
    IN  /\ \E i \in DOMAIN body : body[i] \in Digits
        /\ \A i \in DOMAIN body : body[i] \in Digits \cup {"."}
        /\ Cardinality({i \in DOMAIN body : body[i] = "."}) <= 1
NonFinite == {<<"n","a","n">>, <<"i","n","f">>, <<"i","n","f","i","n","i","t","y">>}
IsNonFinite(str) ==
    LET body == IF str # <<>> /\ Head(str) \in {"-", "+"} THEN Tail(str) ELSE str
    IN  Lower(body) \in NonFinite
CastDouble(str) ==
    LET t == Trim(str)
    IN  IF IsDecimal(t) \/ IsNonFinite(t) THEN Some(t) ELSE Null

(***************************************************************************)
(* Rows.  spark.read.json infers one schema for every *.json document of   *)
(* the partition: the brewery fields and the fields of the metadata        *)
(* sidecar; a field a document does not have is null in its rows.          *)
(* (name, address_2, address_3 and state are carried through unread and    *)
(* are left out.)                                                          *)
(***************************************************************************)
Brewery(id, type, street, address_1, city, state_province, postal_code, country, longitude, latitude, phone, website_url) ==
    [id |-> id, brewery_type |-> type, street |-> street, address_1 |-> address_1,
     city |-> city, state_province |-> state_province, postal_code |-> postal_code,
     country |-> country, longitude |-> longitude, latitude |-> latitude,
     phone |-> phone, website_url |-> website_url]

\* The row of a brewery object of a breweries_*.json array; an object that
\* carries a processing_timestamp of its own brings it as a column.
BreweryRow(b) ==
    [id |-> b.id, brewery_type |-> b.brewery_type, street |-> b.street,
     address_1 |-> b.address_1, city |-> b.city, state_province |-> b.state_province,
     postal_code |-> b.postal_code, country |-> b.country, longitude |-> b.longitude,
     latitude |-> b.latitude, phone |-> b.phone, website_url |-> b.website_url,
     execution_date |-> Null, timestamp |-> Null, record_count |-> Null,
     output_file |-> Null, gcs_enabled |-> Null,
     processing_timestamp |->
        IF "processing_timestamp" \in DOMAIN b THEN Some(b.processing_timestamp) ELSE Null]

\* The row of the object of a metadata_*.json document.
MetadataRow(m) ==
    [id |-> Null, brewery_type |-> Null, street |-> Null, address_1 |-> Null,
     city |-> Null, state_province |-> Null, postal_code |-> Null, country |-> Null,
     longitude |-> Null, latitude |-> Null, phone |-> Null, website_url |-> Null,
     execution_date |-> Some(m.execution_date), timestamp |-> Some(m.timestamp),
     record_count |-> Some(m.record_count), output_file |-> Some(m.output_file),
     gcs_enabled |-> Some(m.gcs_enabled), processing_timestamp |-> Null]

(***************************************************************************)
(* Silver: clean_and_transform.                                            *)
(***************************************************************************)
Unknown == <<"U","n","k","n","o","w","n">>
unknown == <<"u","n","k","n","o","w","n">>
CommaSpace == <<",", " ">>

\* Mutant: an empty string counts as a value.
NullOrEmpty_NullOnly(x) == IsNull(x)
NullOrEmpty(x) == IsNull(x) \/ Val(x) = <<>>

\* The withColumn calls of clean_and_transform on one row; ts is the value
\* of current_timestamp() for the query.
WithColumns(r, ts) ==
    LET longitude_numeric ==
            IF ~NullOrEmpty(r.longitude) THEN CastDouble(Val(r.longitude)) ELSE Null
        latitude_numeric ==
            IF ~NullOrEmpty(r.latitude) THEN CastDouble(Val(r.latitude)) ELSE Null
    IN  [processing_timestamp |-> ts,
         longitude_numeric |-> longitude_numeric,
         latitude_numeric |-> latitude_numeric,
         country_normalized |->
            IF NullOrEmpty(r.country) THEN Unknown
            ELSE SpacesToUnderscores(Upper(Trim(Val(r.country)))),
         state_province_normalized |->
            IF NullOrEmpty(r.state_province) THEN Unknown
            ELSE SpacesToUnderscores(Trim(Val(r.state_province))),
         brewery_type_normalized |->
            IF NullOrEmpty(r.brewery_type) THEN unknown
            ELSE Lower(Trim(Val(r.brewery_type))),
         has_coordinates |-> ~IsNull(longitude_numeric) /\ ~IsNull(latitude_numeric),
         has_contact_info |-> ~NullOrEmpty(r.phone) \/ ~NullOrEmpty(r.website_url),
         full_address |->
            ConcatWs(CommaSpace, <<r.street, r.address_1, r.city, r.state_province,
                                   r.postal_code, r.country>>)]
        @@ r

\* Mutant: no deduplication, every row is kept.
Deduplicate_KeepsEveryRow(rows) == {SeqToBag(rows)}

\* Window.partitionBy("id").orderBy(desc("processing_timestamp")), row_number
\* = 1: of the rows of one id (null is an id like another here) one row with
\* the greatest processing_timestamp is kept.  Spark leaves open which one
\* when several rows tie, so every choice is an outcome.
Deduplicate(rows) ==
    LET ids == {rows[i].id : i \in DOMAIN rows}
        Latest(id) ==
            {i \in DOMAIN rows :
                /\ rows[i].id = id
                /\ \A j \in DOMAIN rows :
                      rows[j].id = id =>
                          rows[j].processing_timestamp <= rows[i].processing_timestamp}
        RECURSIVE Keep(_)
        Keep(S) ==
            IF S = {} THEN {{}}
            ELSE LET id == CHOOSE x \in S : TRUE
                 IN  {kept \cup {rows[i]} : kept \in Keep(S \ {id}), i \in Latest(id)}
    IN  {SetToBag(kept) : kept \in Keep(ids)}

\* clean_and_transform(df): the DataFrames it can return, as bags of rows.
clean_and_transform(df, ts) ==
    Deduplicate([i \in DOMAIN df |-> WithColumns(df[i], ts)])

(***************************************************************************)
(* Gold: the three aggregations.  A ratio rounded to 2 decimals is kept in *)
(* hundredths (F.round is half-up).                                        *)
(***************************************************************************)
\* Mutant: rounded to a whole percent.
RoundedPercent_WholePercent(num, den) == 100 * ((2 * 100 * num + den) \div (2 * den))
\* round(num / den * 100, 2), in hundredths of a percent.
RoundedPercent(num, den) == (2 * 10000 * num + den) \div (2 * den)

DistinctNonNull(S) == Cardinality({x \in S : ~IsNull(x)})

\* Mutant: the data quality score is taken over brewery_count, not twice it.
aggregate_by_type_and_location_ScoreOverCount(df, ts) ==
    LET Key(r) == <<r.country_normalized, r.state_province_normalized,
                    r.brewery_type_normalized>>
        Group(k) == {r \in DOMAIN df : Key(r) = k}
        Location(k) == {r \in DOMAIN df : /\ r.country_normalized = k[1]
                                          /\ r.state_province_normalized = k[2]}
    IN  SetToBag({
          LET brewery_count == CountIn(df, Group(k))
              with_coordinates == CountIn(df, {r \in Group(k) : r.has_coordinates})
              with_contact_info == CountIn(df, {r \in Group(k) : r.has_contact_info})
          IN  [country |-> k[1], state_province |-> k[2], brewery_type |-> k[3],
               brewery_count |-> brewery_count,
               with_coordinates |-> with_coordinates,
               with_contact_info |-> with_contact_info,
               unique_breweries |-> DistinctNonNull({r.id : r \in Group(k)}),
               percentage_of_location |->
                   RoundedPercent(brewery_count, CountIn(df, Location(k))),
               data_quality_score |->
                   RoundedPercent(with_coordinates + with_contact_info, brewery_count),
               aggregation_timestamp |-> ts]
          : k \in {Key(r) : r \in DOMAIN df}})

aggregate_by_type_and_location(df, ts) ==
    LET Key(r) == <<r.country_normalized, r.state_province_normalized,
                    r.brewery_type_normalized>>
        Group(k) == {r \in DOMAIN df : Key(r) = k}
        Location(k) == {r \in DOMAIN df : /\ r.country_normalized = k[1]
                                          /\ r.state_province_normalized = k[2]}
    IN  SetToBag({
          LET brewery_count == CountIn(df, Group(k))
              with_coordinates == CountIn(df, {r \in Group(k) : r.has_coordinates})
              with_contact_info == CountIn(df, {r \in Group(k) : r.has_contact_info})
          IN  [country |-> k[1], state_province |-> k[2], brewery_type |-> k[3],
               brewery_count |-> brewery_count,
               with_coordinates |-> with_coordinates,
               with_contact_info |-> with_contact_info,
               unique_breweries |-> DistinctNonNull({r.id : r \in Group(k)}),
               percentage_of_location |->
                   RoundedPercent(brewery_count, CountIn(df, Location(k))),
               data_quality_score |->
                   RoundedPercent(with_coordinates + with_contact_info, brewery_count * 2),
               aggregation_timestamp |-> ts]
          : k \in {Key(r) : r \in DOMAIN df}})

aggregate_by_type(df, ts) ==
    LET Group(k) == {r \in DOMAIN df : r.brewery_type_normalized = k}
        total_breweries == BagCardinality(df)
    IN  SetToBag({
          [brewery_type |-> k,
           total_breweries |-> CountIn(df, Group(k)),
           countries_count |-> Cardinality({r.country_normalized : r \in Group(k)}),
           regions_count |-> Cardinality({r.state_province_normalized : r \in Group(k)}),
           avg_coordinate_completeness |->
               [num |-> CountIn(df, {r \in Group(k) : r.has_coordinates}),
                den |-> CountIn(df, Group(k))],
           percentage_of_total |-> RoundedPercent(CountIn(df, Group(k)), total_breweries),
           aggregation_timestamp |-> ts]
          : k \in {r.brewery_type_normalized : r \in DOMAIN df}})

\* Mutant: total_breweries counts the distinct types of the location.
aggregate_by_location_CountsDistinctTypes(df, ts) ==
    LET Key(r) == <<r.country_normalized, r.state_province_normalized>>
        Group(k) == {r \in DOMAIN df : Key(r) = k}
    IN  SetToBag({
          [country |-> k[1], state_province |-> k[2],
           total_breweries |-> Cardinality({r.brewery_type_normalized : r \in Group(k)}),
           brewery_types_count |->
               Cardinality({r.brewery_type_normalized : r \in Group(k)}),
           with_coordinates |-> CountIn(df, {r \in Group(k) : r.has_coordinates}),
           brewery_types |-> {r.brewery_type_normalized : r \in Group(k)},
           aggregation_timestamp |-> ts]
          : k \in {Key(r) : r \in DOMAIN df}})

aggregate_by_location(df, ts) ==
    LET Key(r) == <<r.country_normalized, r.state_province_normalized>>
        Group(k) == {r \in DOMAIN df : Key(r) = k}
    IN  SetToBag({
          [country |-> k[1], state_province |-> k[2],
           total_breweries |-> CountIn(df, Group(k)),
           brewery_types_count |->
               Cardinality({r.brewery_type_normalized : r \in Group(k)}),
           with_coordinates |-> CountIn(df, {r \in Group(k) : r.has_coordinates}),
           brewery_types |-> {r.brewery_type_normalized : r \in Group(k)},
           aggregation_timestamp |-> ts]
          : k \in {Key(r) : r \in DOMAIN df}})

(***************************************************************************)
(* The data lake.                                                          *)
(***************************************************************************)
Dates == {"2024-01-01", "2024-01-02"}
Times == 1..MaxTime

\* A date partition of the raw layer: breweries_{timestamp}.json and
\* metadata_{timestamp}.json documents, by timestamp.
NoBronze == [exists |-> FALSE, breweries |-> <<>>, metadata |-> <<>>]
\* A date partition of the curated layer: the rows of the parquet files under
\* breweries_per_location, and whether a .spark-staging-* directory lies in it.
NoSilver == [exists |-> FALSE, written |-> FALSE, rows |-> EmptyBag, staging |-> FALSE, job |-> 0]
\* A date partition of the aggregated layer: the rows of each table written.
TableNames == <<"brewery_by_type_and_location", "brewery_by_type", "brewery_by_location">>
NoTables == [t \in Range(TableNames) |-> Null]
NoGold == [exists |-> FALSE, tables |-> NoTables, staging |-> FALSE, job |-> 0]

\* DataLakeConfig.gcs_bucket (GCS_BUCKET_NAME) and the objects of the bucket,
\* by blob path.
NoBucket == [configured |-> FALSE, objects |-> <<>>]
EmptyBucket == [configured |-> TRUE, objects |-> <<>>]

\* A stage call: its stage and run date, what it returned or raised, and
\* whether it found and removed an output directory of an earlier run.
NoCall == [op |-> "none", date |-> "", outcome |-> "", value |-> Null, removed |-> FALSE]
Returned(op, d, v, removed) ==
    [op |-> op, date |-> d, outcome |-> "returned", value |-> Some(v), removed |-> removed]
Raised(op, d, exc, removed) ==
    [op |-> op, date |-> d, outcome |-> exc, value |-> Null, removed |-> removed]

\* No GcsStorage object constructed.  enabled and storage_client are the
\* object's fields; failure is the way __init__ ended, calls the number of
\* method calls made on the object, client_calls the number of them that
\* used storage_client, result the last of them.
NoResult == [op |-> "none", outcome |-> "", value |-> FALSE, list |-> {}]
NoAdapter ==
    [constructed |-> FALSE, enabled |-> FALSE, storage_client |-> Null,
     failure |-> "none", calls |-> 0, client_calls |-> 0, result |-> NoResult]

\* The tasks of the DAG, in the order of the dependency chain of line 236.
Tasks ==
    <<"start", "ingest_from_api", "transform_and_partition", "create_aggregations",
      "data_quality_check", "end">>
\* No DAG run: no logical date, no task instance scheduled.
NoDagRun ==
    [ds |-> "", state |-> [t \in Range(Tasks) |-> "none"],
     try_number |-> [t \in Range(Tasks) |-> 0]]

LakeInit ==
    /\ adapter = NoAdapter
    /\ dag = NoDagRun
    /\ now = 1
    /\ calls = 0
    /\ ret = NoCall
    /\ bronze = [d \in Dates |-> NoBronze]
    /\ silver = [d \in Dates |-> NoSilver]
    /\ gold = [d \in Dates |-> NoGold]

RECURSIVE Sorted(_)
Sorted(S) ==
    IF S = {} THEN <<>>
    ELSE LET m == CHOOSE x \in S : \A y \in S : x <= y IN <<m>> \o Sorted(S \ {m})

(***************************************************************************)
(* Bronze: ingest_breweries.                                               *)
(***************************************************************************)
RawFile(d, timestamp) == [layer |-> "bronze", date |-> d, kind |-> "breweries", timestamp |-> timestamp]

\* Mutant: the metadata sidecar is not written.
WriteBronze_WithoutMetadata(part, d, timestamp, breweries, gcs_enabled) ==
    [exists |-> TRUE,
     breweries |-> (timestamp :> breweries) @@ part.breweries,
     metadata |-> part.metadata]

\* Lines 181-219: mkdir of the partition, the batch document, the metadata
\* document.
WriteBronze(part, d, timestamp, breweries, gcs_enabled) ==
    [exists |-> TRUE,
     breweries |-> (timestamp :> breweries) @@ part.breweries,
     metadata |-> (timestamp :>
                     [execution_date |-> d, timestamp |-> timestamp,
                      record_count |-> Len(breweries),
                      output_file |-> RawFile(d, timestamp),
                      gcs_enabled |-> gcs_enabled]) @@ part.metadata]

\* GcsStorage.save_json_to_gcs by an enabled adapter: the blob
\* {layer_name}/{file_name} is uploaded, unless the upload fails.
BlobPath(layer_name, file_name) == [layer_name |-> layer_name, file_name |-> file_name]
save_json_to_gcs(objects, data, layer_name, file_name, uploads) ==
    IF uploads THEN (BlobPath(layer_name, file_name) :> data) @@ objects ELSE objects

\* save_parquet_to_gcs by an enabled adapter: the *.parquet files under
\* local_path are uploaded in turn to {layer_name}/{folder_name}/{relative};
\* uploaded = how many uploads complete before one raises.
save_parquet_to_gcs(objects, files, layer_name, folder_name, uploaded) ==
    [b \in {BlobPath(layer_name, folder_name \o files[i]) : i \in 1..uploaded} |-> "parquet"]
        @@ objects

\* f"date={exec_date}", the name of the partition directory of a run date.
DatePartition(d) == IF d = "2024-01-01" THEN "date=2024-01-01" ELSE "date=2024-01-02"
\* The part files of one Spark write, relative to the directory written:
\* their names carry the identifier of the write job, here the number of
\* the stage call.
PartFiles(job) == <<<<job>>>>

\* Mutant: the exception leaves the method.
Except_Propagates(completed, value, list) ==
    IF completed THEN [outcome |-> "returned", value |-> value, list |-> list]
    ELSE [outcome |-> "raised", value |-> FALSE, list |-> {}]

\* try: ... return value / except Exception: return False (or []).
Except(completed, value, list) ==
    IF completed THEN [outcome |-> "returned", value |-> value, list |-> list]
    ELSE [outcome |-> "returned", value |-> FALSE, list |-> {}]

\* `if not self.enabled: return False` (or []) of every method.
NotEnabled == [outcome |-> "returned", value |-> FALSE, list |-> {}]

\* gcs_file = f"{exec_date}/breweries_{timestamp}.json"
GcsFile(d, timestamp) == <<d, "breweries", timestamp>>

\* Mutant: the batch is never found empty.
NoData_NeverEmpty(breweries) == FALSE

\* `if not breweries`
NoData(breweries) == breweries = <<>>
NoDataError == "ValueError: No data received from API"

\* ingest_breweries(api_client, output_path, execution_date = d, gcs_bucket)
\* against transport tr, started when the clock reads `now`; with a bucket,
\* the adapter is enabled and uploads tells whether its upload goes through.
\* An exception leaving save_json_to_gcs would leave ingest_breweries too,
\* after the batch document and before the metadata document.
Ingest(d, tr, uploads) ==
    LET timestamp == now
        fetched == fetch_all_breweries(tr)
        breweries == fetched.all_breweries
    IN  /\ calls < MaxCalls
        /\ calls' = calls + 1
        /\ transport' = tr
        /\ loop' = fetched
        /\ requests' = [i \in 1..fetched.page |-> [page |-> i, per_page |-> PerPage]]
        /\ IF fetched.pc = "raised"
           THEN /\ ret' = Raised("ingest", d, "RequestException", FALSE)
                /\ UNCHANGED <<bronze, bucket>>
           ELSE IF NoData(breweries)
           THEN /\ ret' = Raised("ingest", d, NoDataError, FALSE)
                /\ UNCHANGED <<bronze, bucket>>
           ELSE LET success == IF bucket.configured THEN Except(uploads, TRUE, {})
                                                    ELSE NotEnabled
                IN  /\ bucket' = IF ~bucket.configured THEN bucket
                                  ELSE [bucket EXCEPT !.objects =
                                           save_json_to_gcs(@, breweries, "bronze",
                                                            GcsFile(d, timestamp), uploads)]
                    /\ IF success.outcome = "raised"
                       THEN /\ bronze' = [bronze EXCEPT ![d] =
                                            [WriteBronze(@, d, timestamp, breweries, TRUE)
                                                EXCEPT !.metadata = bronze[d].metadata]]
                            /\ ret' = Raised("ingest", d, "Exception", FALSE)
                       ELSE /\ bronze' = [bronze EXCEPT ![d] =
                                            WriteBronze(@, d, timestamp, breweries,
                                                        bucket.configured)]
                            /\ ret' = Returned("ingest", d, RawFile(d, timestamp), FALSE)
        /\ UNCHANGED <<now, silver, gold, adapter>>

(***************************************************************************)
(* Silver: transform_to_silver.                                            *)
(***************************************************************************)
\* spark.read.option("multiLine", "true").json(input_path / "*.json"): the
\* rows of every .json document of the partition, in file-name order.
ReadJson(part) ==
    LET bts == Sorted(DOMAIN part.breweries)
        mts == Sorted(DOMAIN part.metadata)
    IN  Flatten([i \in DOMAIN bts |->
                    [j \in DOMAIN part.breweries[bts[i]] |->
                        BreweryRow(part.breweries[bts[i]][j])]])
        \o [i \in DOMAIN mts |-> MetadataRow(part.metadata[mts[i]])]

\* Mutant: the write appends to the rows already in the partition.
WriteSilver_Appends(layer, d, rows, completes) ==
    [x \in Dates |->
        IF x = d
        THEN IF completes
             THEN [exists |-> TRUE, written |-> TRUE, rows |-> layer[d].rows (+) rows,
                   staging |-> FALSE, job |-> calls + 1]
             ELSE [exists |-> TRUE, written |-> FALSE, rows |-> EmptyBag, staging |-> TRUE,
                   job |-> 0]
        ELSE [layer[x] EXCEPT !.staging = FALSE]]

\* Mutant: the whole curated layer is removed before the write.
WriteSilver_ClearsLayer(layer, d, rows, completes) ==
    [x \in Dates |->
        IF x = d
        THEN IF completes
             THEN [exists |-> TRUE, written |-> TRUE, rows |-> rows, staging |-> FALSE,
                   job |-> calls + 1]
             ELSE [exists |-> TRUE, written |-> FALSE, rows |-> EmptyBag, staging |-> TRUE,
                   job |-> 0]
        ELSE NoSilver]

\* Lines 205-222: clean_spark_staging_files over the whole curated layer,
\* rmtree of the date's output directory, then the parquet write, whose part
\* files are those of job.  A write that Spark does not complete leaves its
\* staging directory behind.
WriteSilver(layer, d, rows, completes) ==
    [x \in Dates |->
        IF x = d
        THEN IF completes
             THEN [exists |-> TRUE, written |-> TRUE, rows |-> rows, staging |-> FALSE,
                   job |-> calls + 1]
             ELSE [exists |-> TRUE, written |-> FALSE, rows |-> EmptyBag, staging |-> TRUE,
                   job |-> 0]
        ELSE [layer[x] EXCEPT !.staging = FALSE]]

SilverDir(d) == [layer |-> "silver", date |-> d]

\* Mutant: the staging directories of the curated layer are cleaned before
\* the raw partition is looked for.
Transform_CleansBeforeCheck(d, completes) ==
    /\ calls < MaxCalls
    /\ calls' = calls + 1
    /\ IF ~bronze[d].exists
       THEN /\ ret' = Raised("transform", d, "FileNotFoundError", FALSE)
            /\ silver' = [x \in Dates |-> [silver[x] EXCEPT !.staging = FALSE]]
            /\ UNCHANGED bucket
       ELSE \E df_transformed \in clean_and_transform(ReadJson(bronze[d]), now) :
            /\ silver' = WriteSilver(silver, d, df_transformed, completes)
            /\ \E uploads \in BOOLEAN :
                  bucket' = IF completes /\ bucket.configured
                            THEN [bucket EXCEPT !.objects =
                                    save_parquet_to_gcs(@, PartFiles(calls + 1), "silver",
                                        <<DatePartition(d), "breweries_per_location">>,
                                        IF uploads THEN 1 ELSE 0)]
                            ELSE bucket
            /\ ret' = IF completes
                      THEN Returned("transform", d, SilverDir(d), silver[d].exists)
                      ELSE Raised("transform", d, "SparkWriteError", silver[d].exists)
    /\ UNCHANGED <<now, bronze, gold, adapter>>

\* transform_to_silver(bronze_path, silver_path, execution_date = d,
\* gcs_bucket): with a bucket, the adapter is enabled and the part files
\* written are uploaded to silver/date={d}/breweries_per_location, unless
\* the upload fails.
Transform(d, completes) ==
    /\ calls < MaxCalls
    /\ calls' = calls + 1
    /\ IF ~bronze[d].exists
       THEN /\ ret' = Raised("transform", d, "FileNotFoundError", FALSE)
            /\ UNCHANGED <<silver, bucket>>
       ELSE \E df_transformed \in clean_and_transform(ReadJson(bronze[d]), now) :
            /\ silver' = WriteSilver(silver, d, df_transformed, completes)
            /\ \E uploads \in BOOLEAN :
                  bucket' = IF completes /\ bucket.configured
                            THEN [bucket EXCEPT !.objects =
                                    save_parquet_to_gcs(@, PartFiles(calls + 1), "silver",
                                        <<DatePartition(d), "breweries_per_location">>,
                                        IF uploads THEN 1 ELSE 0)]
                            ELSE bucket
            /\ ret' = IF completes
                      THEN Returned("transform", d, SilverDir(d), silver[d].exists)
                      ELSE Raised("transform", d, "SparkWriteError", silver[d].exists)
    /\ UNCHANGED <<now, bronze, gold, adapter>>

(***************************************************************************)
(* Gold: create_gold_aggregations.                                         *)
(***************************************************************************)
\* Mutant: the tables of an earlier run are kept beside the new ones.
WriteGold_KeepsPriorTables(layer, d, tables, written) ==
    [x \in Dates |->
        IF x = d
        THEN [exists |-> TRUE,
              tables |-> [t \in Range(TableNames) |->
                            IF \E i \in 1..written : TableNames[i] = t
                            THEN IF IsNull(layer[d].tables[t]) THEN Some(tables[t])
                                 ELSE Some(Val(layer[d].tables[t]) (+) tables[t])
                            ELSE Null],
              staging |-> written < Len(TableNames),
              job |-> IF written > 0 THEN calls + 1 ELSE 0]
        ELSE [layer[x] EXCEPT !.staging = FALSE]]

\* Lines 189-253: removal of every .spark-staging-* directory of the
\* aggregated layer, rmtree of the date's output directory, then the three
\* tables written in turn; written = how many writes Spark completes.
WriteGold(layer, d, tables, written) ==
    [x \in Dates |->
        IF x = d
        THEN [exists |-> TRUE,
              tables |-> [t \in Range(TableNames) |->
                            IF \E i \in 1..written : TableNames[i] = t
                            THEN Some(tables[t]) ELSE Null],
              staging |-> written < Len(TableNames),
              job |-> IF written > 0 THEN calls + 1 ELSE 0]
        ELSE [layer[x] EXCEPT !.staging = FALSE]]

GoldDir(d) == [layer |-> "gold", date |-> d]

Aggregations(df, ts) ==
    [t \in Range(TableNames) |->
        CASE t = "brewery_by_type_and_location" -> aggregate_by_type_and_location(df, ts)
          [] t = "brewery_by_type" -> aggregate_by_type(df, ts)
          [] t = "brewery_by_location" -> aggregate_by_location(df, ts)]

\* create_gold_aggregations(silver_path, gold_path, execution_date = d,
\* gcs_bucket): with a bucket, the adapter is enabled and the part files of
\* each table written are uploaded to gold/date={d}/{table}, unless the
\* uploads fail.
Aggregate(d, written) ==
    /\ calls < MaxCalls
    /\ calls' = calls + 1
    /\ IF ~silver[d].exists
       THEN /\ ret' = Raised("aggregate", d, "FileNotFoundError", FALSE)
            /\ UNCHANGED <<gold, bucket>>
       ELSE IF ~silver[d].written
       THEN /\ ret' = Raised("aggregate", d, "AnalysisException", FALSE)
            /\ UNCHANGED <<gold, bucket>>
       ELSE /\ gold' = WriteGold(gold, d, Aggregations(silver[d].rows, now), written)
            /\ \E uploads \in BOOLEAN :
                  bucket' = IF bucket.configured
                            THEN [bucket EXCEPT !.objects =
                                    save_parquet_to_gcs(@,
                                        [i \in 1..written |-> <<TableNames[i], calls + 1>>],
                                        "gold", <<DatePartition(d)>>,
                                        IF uploads THEN written ELSE 0)]
                            ELSE bucket
            /\ ret' = IF written = Len(TableNames)
                      THEN Returned("aggregate", d, GoldDir(d), gold[d].exists)
                      ELSE Raised("aggregate", d, "SparkWriteError", gold[d].exists)
    /\ UNCHANGED <<now, bronze, silver, adapter>>

\* The data files of the partition of date d of a layer, relative to the
\* root directory of the layer: date={d}/breweries_{timestamp}.json,
\* date={d}/breweries_per_location/{part file} and date={d}/{table}/{part
\* file}.
LocalFiles(layer_name, d) ==
    CASE layer_name = "bronze" ->
            {<<DatePartition(d), "breweries", t>> : t \in DOMAIN bronze[d].breweries}
      [] layer_name = "silver" ->
            IF silver[d].written
            THEN {<<DatePartition(d), "breweries_per_location">> \o PartFiles(silver[d].job)[1]}
            ELSE {}
      [] layer_name = "gold" ->
            {<<DatePartition(d), t>> \o PartFiles(gold[d].job)[1] :
                t \in {t \in Range(TableNames) : ~IsNull(gold[d].tables[t])}}

(***************************************************************************)
(* The quality check of the DAG: data_quality_check.                       *)
(***************************************************************************)
Layers == <<"Bronze", "Silver", "Gold">>

\* bronze_path.exists() and list(bronze_path.glob("*.json")): the batch and
\* the metadata documents are the .json files of the raw partition.
\* silver_path.exists() and list(silver_path.rglob("*.parquet")): the part
\* files of a completed write of breweries_per_location.
\* gold_path.exists() and list(gold_path.rglob("*.parquet")): the part files
\* of every table written.
LayerDataExists(layer, d) ==
    CASE layer = "Bronze" ->
            /\ bronze[d].exists
            /\ DOMAIN bronze[d].breweries \cup DOMAIN bronze[d].metadata # {}
      [] layer = "Silver" -> silver[d].exists /\ silver[d].written
      [] layer = "Gold" ->
            /\ gold[d].exists
            /\ \E t \in Range(TableNames) : ~IsNull(gold[d].tables[t])

\* Mutant: the check raises at the first layer whose data is missing.
data_quality_check_StopsAtFirstMissing(d) ==
    /\ calls < MaxCalls
    /\ calls' = calls + 1
    /\ LET Exists(layer) == LayerDataExists(layer, d)
           Missing(layer) == ~LayerDataExists(layer, d)
           checks_passed == SelectSeq(Layers, Exists)
           checks_failed == SubSeq(SelectSeq(Layers, Missing), 1, 1)
       IN  ret' = IF checks_failed # <<>>
                  THEN [Raised("data_quality_check", d, "ValueError", FALSE)
                           EXCEPT !.value = Some([failed |-> checks_failed])]
                  ELSE Returned("data_quality_check", d,
                                [passed |-> checks_passed, failed |-> checks_failed], FALSE)
    /\ UNCHANGED <<now, bronze, silver, gold, bucket, adapter>>

\* data_quality_check(ds = d): the three checks in turn, each appending to
\* checks_passed or checks_failed; then the ValueError whose message is
\* checks_failed, or the two lists returned.
data_quality_check(d) ==
    /\ calls < MaxCalls
    /\ calls' = calls + 1
    /\ LET Exists(layer) == LayerDataExists(layer, d)
           Missing(layer) == ~LayerDataExists(layer, d)
           checks_passed == SelectSeq(Layers, Exists)
           checks_failed == SelectSeq(Layers, Missing)
       IN  ret' = IF checks_failed # <<>>
                  THEN [Raised("data_quality_check", d, "ValueError", FALSE)
                           EXCEPT !.value = Some([failed |-> checks_failed])]
                  ELSE Returned("data_quality_check", d,
                                [passed |-> checks_passed, failed |-> checks_failed], FALSE)
    /\ UNCHANGED <<now, bronze, silver, gold, bucket, adapter>>

\* A second passes.
Tick ==
    /\ now < MaxTime
    /\ now' = now + 1
    /\ UNCHANGED <<calls, ret, lakeVars>>

(***************************************************************************)
(* The upstream of the pipeline runs: the sample breweries of the tests.   *)
(***************************************************************************)
Str_micro == <<"m","i","c","r","o">>
Str_regional == <<"r","e","g","i","o","n","a","l">>
Str_UnitedStates == <<"U","n","i","t","e","d"," ","S","t","a","t","e","s">>
Str_California == <<"C","a","l","i","f","o","r","n","i","a">>
Str_Oregon == <<"O","r","e","g","o","n">>
Str_Colorado == <<"C","o","l","o","r","a","d","o">>

Brewery1 ==
    Brewery(Some(<<"5","1","2","8">>), Some(Str_micro), Some(<<"1"," ","M","a","i","n">>),
            Some(<<"1"," ","M","a","i","n">>), Some(<<"S","F">>), Some(Str_California),
            Some(<<"9","4","1">>), Some(Str_UnitedStates), Some(<<"-","1","2","2",".","4">>),
            Some(<<"3","7",".","7">>), Some(<<"4","1","5">>), Some(<<"h","t","t","p">>))
Brewery2 ==
    Brewery(Some(<<"9","c","5","a">>), Some(Str_regional), Some(<<"4"," ","O","a","k">>),
            Some(<<"4"," ","O","a","k">>), Some(<<"P","D","X">>), Some(Str_Oregon),
            Some(<<"9","7","2">>), Some(Str_UnitedStates), Some(<<"-","1","2","2",".","6">>),
            Some(<<"4","5",".","5">>), Some(<<>>), Some(<<>>))
Brewery3 ==
    Brewery(Some(<<"3","4","e","8">>), Some(Str_micro), Null, Null, Some(<<"D","E","N">>),
            Some(Str_Colorado), Some(<<"8","0","2">>), Some(Str_UnitedStates), Null, Null,
            Some(<<"3","0","3">>), Some(<<"h","t","t","p">>))
\* Brewery1 as the upstream gives it after it changed its type.
Brewery1Changed == [Brewery1 EXCEPT !.brewery_type = Some(Str_regional)]

Upstreams ==
    {<<>>, <<Brewery1, Brewery2, Brewery3>>, <<Brewery1Changed, Brewery1>>}

\* The API serving dataset data in pages of PerPage records.
ServeDataset(data) ==
    [p \in 1..((Len(data) + PerPage - 1) \div PerPage) |->
        Page(SubSeq(data, (p - 1) * PerPage + 1, Min(p * PerPage, Len(data))))]
\* The same, with the request for the last page of data failing.
FailingOnLastPage(data) ==
    [ServeDataset(data) EXCEPT ![Len(ServeDataset(data))] = RequestException]

\* An upstream whose first request fails.
FailingOnFirstPage == <<RequestException>>

PipelineTransports ==
    {ServeDataset(data) : data \in Upstreams}
    \cup {FailingOnLastPage(<<Brewery1, Brewery2, Brewery3>>), FailingOnFirstPage}

(***************************************************************************)
(* The stages called in any order, for any date, one call at a time.       *)
(***************************************************************************)
Init ==
    /\ transport = <<>>
    /\ loop = InitialLoop
    /\ requests = <<>>
    /\ LakeInit
    /\ bucket = NoBucket

CallIngest ==
    \E d \in Dates, tr \in PipelineTransports, uploads \in BOOLEAN :
        Ingest(d, tr, uploads) /\ UNCHANGED dag

CallTransform ==
    \E d \in Dates, completes \in BOOLEAN :
        Transform(d, completes) /\ UNCHANGED <<fetchVars, dag>>

CallAggregate ==
    \E d \in Dates, written \in 0..Len(TableNames) :
        Aggregate(d, written) /\ UNCHANGED <<fetchVars, dag>>

Clock == Tick /\ UNCHANGED fetchVars

Next == CallIngest \/ CallTransform \/ CallAggregate \/ Clock

Spec == Init /\ [][Next]_vars

(***************************************************************************)
(* The stages and the quality check called in any order, for any date.     *)
(***************************************************************************)
CallQualityCheck ==
    \E d \in Dates : data_quality_check(d) /\ UNCHANGED <<fetchVars, dag>>

QualityNext == CallIngest \/ CallTransform \/ CallAggregate \/ CallQualityCheck

QualityInit ==
    /\ transport = <<>>
    /\ loop = InitialLoop
    /\ requests = <<>>
    /\ LakeInit
    /\ bucket \in {NoBucket, EmptyBucket}

QualitySpec == QualityInit /\ [][QualityNext]_vars

(***************************************************************************)
(* One run of the DAG brewery_data_pipeline under the scheduler: every     *)
(* task has the default trigger rule (all upstream tasks succeeded) and    *)
(* the retries of default_args.                                            *)
(***************************************************************************)
retries == 3

\* The scheduler creates the run of a logical date.
TriggerRun ==
    /\ dag = NoDagRun
    /\ \E ds \in Dates : dag' = [NoDagRun EXCEPT !.ds = ds]
    /\ UNCHANGED <<fetchVars, now, calls, ret, bronze, silver, gold, bucket, adapter>>

\* Mutant: a task instance is started whatever the state of its upstream.
StartTask_IgnoresUpstream(i) ==
    /\ dag.ds # ""
    /\ dag.state[Tasks[i]] \in {"none", "up_for_retry"}
    /\ dag' = [dag EXCEPT !.state[Tasks[i]] = "running", !.try_number[Tasks[i]] = @ + 1]
    /\ UNCHANGED <<fetchVars, now, calls, ret, bronze, silver, gold, bucket, adapter>>

\* The scheduler starts the i-th task of the chain: it has not run or waits
\* for a retry, and the task upstream of it has succeeded.
StartTask(i) ==
    /\ dag.ds # ""
    /\ dag.state[Tasks[i]] \in {"none", "up_for_retry"}
    /\ i > 1 => dag.state[Tasks[i - 1]] = "success"
    /\ dag' = [dag EXCEPT !.state[Tasks[i]] = "running", !.try_number[Tasks[i]] = @ + 1]
    /\ UNCHANGED <<fetchVars, now, calls, ret, bronze, silver, gold, bucket, adapter>>

\* The end of a try of task t: success when its callable returned, a retry
\* while tries remain, failure after the last.
TaskDone(t, returned) ==
    [dag EXCEPT !.state[t] = IF returned THEN "success"
                             ELSE IF dag.try_number[t] <= retries THEN "up_for_retry"
                             ELSE "failed"]

\* The running task executes: the two EmptyOperators do nothing, each
\* PythonOperator calls its callable with ds = the logical date of the run.
ExecuteTask ==
    \/ \E t \in {"start", "end"} :
          /\ dag.state[t] = "running"
          /\ dag' = TaskDone(t, TRUE)
          /\ UNCHANGED <<fetchVars, now, calls, ret, bronze, silver, gold, bucket, adapter>>
    \/ /\ dag.state["ingest_from_api"] = "running"
       /\ \E tr \in PipelineTransports, uploads \in BOOLEAN : Ingest(dag.ds, tr, uploads)
       /\ dag' = TaskDone("ingest_from_api", ret'.outcome = "returned")
    \/ /\ dag.state["transform_and_partition"] = "running"
       /\ \E completes \in BOOLEAN : Transform(dag.ds, completes)
       /\ dag' = TaskDone("transform_and_partition", ret'.outcome = "returned")
       /\ UNCHANGED fetchVars
    \/ /\ dag.state["create_aggregations"] = "running"
       /\ \E written \in 0..Len(TableNames) : Aggregate(dag.ds, written)
       /\ dag' = TaskDone("create_aggregations", ret'.outcome = "returned")
       /\ UNCHANGED fetchVars
    \/ /\ dag.state["data_quality_check"] = "running"
       /\ data_quality_check(dag.ds)
       /\ dag' = TaskDone("data_quality_check", ret'.outcome = "returned")
       /\ UNCHANGED fetchVars

\* The i-th task of the chain is never run: the task upstream of it failed
\* or was itself not run for that reason.
MarkUpstreamFailed(i) ==
    /\ i > 1
    /\ dag.state[Tasks[i]] = "none"
    /\ dag.state[Tasks[i - 1]] \in {"failed", "upstream_failed"}
    /\ dag' = [dag EXCEPT !.state[Tasks[i]] = "upstream_failed"]
    /\ UNCHANGED <<fetchVars, now, calls, ret, bronze, silver, gold, bucket, adapter>>

DagInit ==
    /\ transport = <<>>
    /\ loop = InitialLoop
    /\ requests = <<>>
    /\ LakeInit
    /\ bucket \in {NoBucket, EmptyBucket}

DagNext ==
    \/ TriggerRun
    \/ \E i \in DOMAIN Tasks : StartTask(i)
    \/ ExecuteTask
    \/ \E i \in DOMAIN Tasks : MarkUpstreamFailed(i)

DagSpec == DagInit /\ [][DagNext]_vars

(***************************************************************************)
(* One call of fetch_breweries over the session of _create_session: the    *)
(* attempts the mounted HTTPAdapter makes under its Retry strategy.        *)
(* requests is the log of the attempts, loop the state of the call.        *)
(***************************************************************************)
\* APIConfig.max_retries, passed as Retry(total=...).
max_retries == 3
status_forcelist == {"429", "500", "502", "503", "504"}

\* What one attempt can meet: a status, a 413 carrying a Retry-After header,
\* or no answer at all (connection error, timeout).
Outcomes == {"200", "404", "413 Retry-After", "ConnectionError"} \cup status_forcelist

\* Mutant: every status but 200 is retried.
is_retry_AnyStatus(method, outcome) == method = "GET" /\ outcome # "200"

\* Retry.is_retry and the error branch of Retry.increment for the strategy
\* of lines 49-54: allowed_methods = ["GET"], the statuses of
\* status_forcelist, a Retry-After header respected on 413, 429 and 503,
\* and a request that got no answer.
is_retry(method, outcome) ==
    /\ method = "GET"
    /\ \/ outcome \in status_forcelist
       \/ outcome = "413 Retry-After"
       \/ outcome = "ConnectionError"

RetryInit ==
    /\ transport = <<>>
    /\ loop = [pc |-> "requesting", total |-> max_retries, exception |-> "none", data |-> Null]
    /\ requests = <<>>
    /\ LakeInit
    /\ bucket = NoBucket

\* self.session.get(...): one attempt.  An outcome to retry takes one from
\* the total and is retried unless the total falls below zero, when the
\* adapter raises; any other outcome is the response of the call.
SessionGet ==
    /\ loop.pc = "requesting"
    /\ \E outcome \in Outcomes :
          /\ requests' = Append(requests, [method |-> "GET", outcome |-> outcome])
          /\ loop' = IF is_retry("GET", outcome)
                     THEN IF loop.total - 1 < 0
                          THEN [loop EXCEPT !.pc = "raised",
                                            !.exception = IF outcome = "ConnectionError"
                                                          THEN "ConnectionError"
                                                          ELSE "RetryError"]
                          ELSE [loop EXCEPT !.total = @ - 1]
                     ELSE [loop EXCEPT !.pc = "responded"]
    /\ UNCHANGED <<transport, now, calls, ret, lakeVars>>

\* response.raise_for_status() and response.json(): the records of a 200,
\* HTTPError for any other status.
RaiseForStatus ==
    /\ loop.pc = "responded"
    /\ loop' = IF requests[Len(requests)].outcome = "200"
               THEN [loop EXCEPT !.pc = "returned", !.data = Some(<<Brewery1>>)]
               ELSE [loop EXCEPT !.pc = "raised", !.exception = "HTTPError"]
    /\ UNCHANGED <<transport, requests, now, calls, ret, lakeVars>>

RetryNext == SessionGet \/ RaiseForStatus

RetrySpec == RetryInit /\ [][RetryNext]_vars

(***************************************************************************)
(* The ingestion stage alone, with or without a bucket to mirror to.       *)
(***************************************************************************)
IngestInit ==
    /\ transport = <<>>
    /\ loop = InitialLoop
    /\ requests = <<>>
    /\ LakeInit
    /\ bucket \in {NoBucket, EmptyBucket}

IngestNext == CallIngest \/ Clock

IngestSpec == IngestInit /\ [][IngestNext]_vars

(***************************************************************************)
(* GcsStorage: one adapter object and the calls made on it.  What the SDK  *)
(* does on a call (complete, or raise part of the way) is an input.        *)
(***************************************************************************)
\* Mutant: enabled is set before the client is constructed.
GcsStorage_EnabledBeforeClient(available, credentials, client_ok) ==
    IF ~available
    THEN [enabled |-> FALSE, storage_client |-> Null, failure |-> "library absent"]
    ELSE IF ~credentials
    THEN [enabled |-> FALSE, storage_client |-> Null, failure |-> "credentials file absent"]
    ELSE IF ~client_ok
    THEN [enabled |-> TRUE, storage_client |-> Null, failure |-> "client construction error"]
    ELSE [enabled |-> TRUE, storage_client |-> Some("client"), failure |-> "none"]

\* GcsStorage.__init__: available = GCS_AVAILABLE, credentials = the
\* credentials file exists, client_ok = storage.Client() does not raise.
GcsStorage(available, credentials, client_ok) ==
    IF ~available
    THEN [enabled |-> FALSE, storage_client |-> Null, failure |-> "library absent"]
    ELSE IF ~credentials
    THEN [enabled |-> FALSE, storage_client |-> Null, failure |-> "credentials file absent"]
    ELSE IF ~client_ok
    THEN [enabled |-> FALSE, storage_client |-> Null, failure |-> "client construction error"]
    ELSE [enabled |-> TRUE, storage_client |-> Some("client"), failure |-> "none"]

\* The blobs of a layer: bucket.list_blobs(prefix=layer_name).
list_blobs(objects, layer_name) == {b \in DOMAIN objects : b.layer_name = layer_name}

\* clear_bucket_layer by an enabled adapter: the blobs of the layer are
\* deleted in turn; deleted = those deleted before a call raises.
clear_bucket_layer(objects, deleted) == [b \in DOMAIN objects \ deleted |-> objects[b]]

\* The arguments the calls are made with.
GcsLayers == {"bronze", "silver"}
JsonFile == GcsFile("2024-01-01", 0)
ParquetFolder == <<"date=2024-01-01">>
ParquetFiles == <<<<"part-0.parquet">>, <<"part-1.parquet">>>>

\* One method call on the constructed adapter: its result, whether it used
\* storage_client, and the objects of the bucket after it.
MethodCall(op, result, used_client, objects) ==
    /\ adapter.constructed
    /\ calls + adapter.calls < MaxCalls
    /\ adapter' = [adapter EXCEPT !.calls = @ + 1,
                                  !.client_calls = @ + (IF used_client THEN 1 ELSE 0),
                                  !.result = [op |-> op] @@ result]
    /\ bucket' = [bucket EXCEPT !.objects = objects]
    /\ UNCHANGED <<fetchVars, now, calls, ret, bronze, silver, gold, dag>>

Construct ==
    /\ ~adapter.constructed
    /\ \E available, credentials, client_ok \in BOOLEAN :
          adapter' = [constructed |-> TRUE, calls |-> 0, client_calls |-> 0,
                      result |-> NoResult]
                     @@ GcsStorage(available, credentials, client_ok)
    /\ UNCHANGED <<fetchVars, now, calls, ret, bronze, silver, gold, bucket, dag>>

IsEnabled ==
    \E enabled \in {adapter.enabled} :
        MethodCall("is_enabled", [outcome |-> "returned", value |-> enabled, list |-> {}],
                   FALSE, bucket.objects)

GetFileListInLayer ==
    \E layer_name \in GcsLayers, completed \in BOOLEAN :
        IF ~adapter.enabled
        THEN MethodCall("get_file_list_in_layer", NotEnabled, FALSE, bucket.objects)
        ELSE MethodCall("get_file_list_in_layer",
                        Except(completed, FALSE, list_blobs(bucket.objects, layer_name)),
                        TRUE, bucket.objects)

SaveJsonToGcs ==
    \E layer_name \in GcsLayers, uploads \in BOOLEAN :
        IF ~adapter.enabled
        THEN MethodCall("save_json_to_gcs", NotEnabled, FALSE, bucket.objects)
        ELSE MethodCall("save_json_to_gcs", Except(uploads, TRUE, {}), TRUE,
                        save_json_to_gcs(bucket.objects, "json", layer_name, JsonFile, uploads))

SaveParquetToGcs ==
    \E layer_name \in GcsLayers, uploaded \in 0..Len(ParquetFiles) :
        IF ~adapter.enabled
        THEN MethodCall("save_parquet_to_gcs", NotEnabled, FALSE, bucket.objects)
        ELSE MethodCall("save_parquet_to_gcs",
                        Except(uploaded = Len(ParquetFiles), TRUE, {}), TRUE,
                        save_parquet_to_gcs(bucket.objects, ParquetFiles, layer_name,
                                            ParquetFolder, uploaded))

ClearBucketLayer ==
    \E layer_name \in GcsLayers :
        IF ~adapter.enabled
        THEN MethodCall("clear_bucket_layer", NotEnabled, FALSE, bucket.objects)
        ELSE \E deleted \in SUBSET list_blobs(bucket.objects, layer_name) :
                MethodCall("clear_bucket_layer",
                           Except(deleted = list_blobs(bucket.objects, layer_name), TRUE, {}),
                           TRUE, clear_bucket_layer(bucket.objects, deleted))

\* The bucket before the adapter is made: empty, or holding a raw batch.
GcsInit ==
    /\ transport = <<>>
    /\ loop = InitialLoop
    /\ requests = <<>>
    /\ LakeInit
    /\ bucket \in {EmptyBucket,
                   [EmptyBucket EXCEPT !.objects = BlobPath("bronze", JsonFile) :> "json"]}

GcsNext ==
    \/ Construct
    \/ IsEnabled
    \/ GetFileListInLayer
    \/ SaveJsonToGcs
    \/ SaveParquetToGcs
    \/ ClearBucketLayer

GcsSpec == GcsInit /\ [][GcsNext]_vars

(***************************************************************************)
(* Mirroring: one ingestion run with a bucket, then an adapter object used  *)
(* on the bucket it mirrored to.                                           *)
(***************************************************************************)
MirrorInit ==
    /\ transport = <<>>
    /\ loop = InitialLoop
    /\ requests = <<>>
    /\ LakeInit
    /\ bucket = EmptyBucket

MirrorIngest ==
    /\ calls = 0
    /\ ~adapter.constructed
    /\ CallIngest

MirrorNext == MirrorIngest \/ GcsNext

MirrorSpec == MirrorInit /\ [][MirrorNext]_vars

(***************************************************************************)
(* One run of the DAG (bronze >> silver >> gold) for one date, over raw     *)
(* batches generated field by field.                                       *)
(***************************************************************************)
RunDate == "2024-01-01"

\* Text fields: null, or a string of blanks, lower and upper case letters.
TextAlphabet == {" ", "a", "B"}
TextValues == {Null} \cup {Some(str) : str \in SeqsUpTo(TextAlphabet, MaxStrLen)}
\* A brewery whose country, state_province and brewery_type are x.
TextBrewery(x) ==
    [Brewery1 EXCEPT !.country = x, !.state_province = x, !.brewery_type = x]

\* A brewery object that already carries a processing_timestamp.
Stamped(b, t) == b @@ [processing_timestamp |-> t]
\* Two objects of one id that differ in brewery_type and carry the
\* processing timestamps t1, t2.
StampedPairs ==
    {<<Stamped(Brewery1, t1), Stamped(Brewery1Changed, t2)>> : t1, t2 \in 1..MaxTime}

\* Coordinate fields: null, a short string of digits, point, sign and a
\* letter, or the spelling of a non-finite double.
CoordAlphabet == {"1", ".", "-", "x"}
CoordValues ==
    {Null} \cup {Some(str) : str \in SeqsUpTo(CoordAlphabet, MaxCoordLen)}
           \cup {Some(<<"N","a","N">>), Some(<<"-","I","n","f","i","n","i","t","y">>)}
CoordBrewery(lat, lon) == [Brewery1 EXCEPT !.latitude = lat, !.longitude = lon]

\* Address fields: missing (null), empty, or a text.
SegmentValues == {Null, Some(<<>>), Some(<<"a">>)}
AddressBrewery(seg) ==
    [Brewery1 EXCEPT !.street = seg[1], !.address_1 = seg[2], !.city = seg[3],
                     !.state_province = seg[4], !.postal_code = seg[5],
                     !.country = seg[6]]

\* Batches of breweries of distinct ids, each of one of 24 kinds: one of
\* three types, in one of two regions, with or without coordinates, with or
\* without contact fields.  The order of a batch is immaterial downstream,
\* so the kinds of a batch are taken in non-decreasing order.
Str_nano == <<"n","a","n","o">>
KindTypes == <<Str_micro, Str_regional, Str_nano>>
KindRegions == <<Str_California, Str_Oregon>>
Kinds == 0..(Len(KindTypes) * Len(KindRegions) * 4 - 1)
KindBrewery(i, n) ==
    [Brewery1 EXCEPT
        !.id = Some([j \in 1..i |-> "i"]),
        !.brewery_type = Some(KindTypes[(n \div 8) + 1]),
        !.state_province = Some(KindRegions[((n \div 4) % 2) + 1]),
        !.latitude = IF (n \div 2) % 2 = 1 THEN @ ELSE Null,
        !.longitude = IF (n \div 2) % 2 = 1 THEN @ ELSE Null,
        !.phone = IF n % 2 = 1 THEN @ ELSE Some(<<>>),
        !.website_url = IF n % 2 = 1 THEN @ ELSE Null]
MixedBatches ==
    {[i \in DOMAIN q |-> KindBrewery(i, q[i])] :
        q \in {q \in SeqsUpTo(Kinds, MaxBatch) :
                 q # <<>> /\ \A i \in 1..(Len(q) - 1) : q[i] <= q[i + 1]}}

RawBatches ==
    {<<TextBrewery(x)>> : x \in TextValues} \cup StampedPairs
        \cup {<<CoordBrewery(lat, lon)>> : lat, lon \in CoordValues}
        \cup {<<AddressBrewery(seg)>> : seg \in [1..6 -> SegmentValues]}
        \cup MixedBatches \cup {<<Brewery1, Brewery2, Brewery3>>}

RunIngest ==
    /\ calls = 0
    /\ \E breweries \in RawBatches : Ingest(RunDate, ServeDataset(breweries), FALSE)
    /\ UNCHANGED dag

RunTransform ==
    /\ ret.op = "ingest" /\ ret.outcome = "returned"
    /\ Transform(ret.date, TRUE)
    /\ UNCHANGED <<fetchVars, dag>>

RunAggregate ==
    /\ ret.op = "transform" /\ ret.outcome = "returned"
    /\ Aggregate(ret.date, Len(TableNames))
    /\ UNCHANGED <<fetchVars, dag>>

RunNext == RunIngest \/ RunTransform \/ RunAggregate

RunSpec == Init /\ [][RunNext]_vars

(***************************************************************************)
(* The fetch loop, one iteration per step.                                 *)
(***************************************************************************)
PageAnswers(p) == {PageOfLen(p, n) : n \in 0..PerPage} \cup {RequestException}

Transports ==
    UNION {{tr \in [1..k -> UNION {PageAnswers(p) : p \in 1..k}] :
               \A p \in 1..k : tr[p] \in PageAnswers(p)} : k \in 0..MaxPages}

FetchInit ==
    /\ transport \in Transports
    /\ loop = InitialLoop
    /\ requests = <<>>
    /\ LakeInit
    /\ bucket = NoBucket

FetchIteration ==
    /\ loop.pc = "fetching"
    /\ requests' = Append(requests, [page |-> loop.page, per_page |-> PerPage])
    /\ loop' = LoopBody(loop, fetch_breweries(transport, loop.page, PerPage))
    /\ UNCHANGED <<transport, now, calls, ret, lakeVars>>

FetchNext == FetchIteration

\* The loop is a single thread that runs until it returns or raises.
FetchSpec == FetchInit /\ [][FetchNext]_vars /\ WF_vars(FetchNext)

(***************************************************************************)
(* Properties of the fetch loop.                                           *)
(***************************************************************************)
\* What the transport returned to the i-th request issued.
Answered(i) == fetch_breweries(transport, requests[i].page, requests[i].per_page)
PagesFetched == [i \in 1..Len(requests) |-> Answered(i).data]

\* C1: whatever pages the transport returns, fetch_all_breweries stops, and
\* when it returns its result is the pages it fetched concatenated in page
\* order, so its length is the sum of the lengths of those pages.
C1_FetchAllTerminatesWithEveryRecord ==
    /\ <>(loop.pc # "fetching")
    /\ [](loop.pc = "returned" =>
            /\ loop.all_breweries = Flatten(PagesFetched)
            /\ Len(loop.all_breweries) = SumLen(PagesFetched))

\* C1 witness: a run over a full page and a partial page has returned both.
C1_Witness ==
    /\ loop.pc = "returned"
    /\ Len(requests) = 2
    /\ Len(loop.all_breweries) = PerPage + 1

Called(op) == calls' = calls + 1 /\ ret'.op = op

\* C3: an ingest_breweries call whose fetch returned an empty batch raises
\* the no-data error and changes nothing: no raw document, no metadata, no
\* partition directory appears in the raw layer, no object in the bucket.
C3_EmptyBatchRaisesAndWritesNothing ==
    [][(Called("ingest") /\ loop'.pc = "returned" /\ loop'.all_breweries = <<>>) =>
          /\ ret'.outcome = NoDataError
          /\ bronze' = bronze
          /\ bucket' = bucket]_vars

\* C3 witness: with a bucket configured, an ingest of an empty upstream has
\* raised the no-data error for a date that has no partition directory.
C3_Witness ==
    /\ ret.op = "ingest"
    /\ ret.outcome = NoDataError
    /\ loop.pc = "returned" /\ loop.all_breweries = <<>>
    /\ ~bronze[ret.date].exists
    /\ bucket = EmptyBucket

\* C4: when the latest call is an ingest_breweries for date D that returned,
\* the partition date=D holds, under the timestamp of the returned path, the
\* raw document with exactly the fetched batch and a metadata document whose
\* execution_date is D, whose record_count is the number of records of that
\* raw document and whose output_file is the returned path.
C4_IngestWritesBatchAndMetadata ==
    (ret.op = "ingest" /\ ret.outcome = "returned") =>
        LET D == ret.date
            output_file == Val(ret.value)
            timestamp == output_file.timestamp
        IN  /\ output_file = RawFile(D, timestamp)
            /\ bronze[D].exists
            /\ timestamp \in DOMAIN bronze[D].breweries
            /\ bronze[D].breweries[timestamp] = loop.all_breweries
            /\ timestamp \in DOMAIN bronze[D].metadata
            /\ bronze[D].metadata[timestamp].timestamp = timestamp
            /\ bronze[D].metadata[timestamp].execution_date = D
            /\ bronze[D].metadata[timestamp].record_count
                   = Len(bronze[D].breweries[timestamp])
            /\ bronze[D].metadata[timestamp].output_file = output_file

\* C4 witness: an ingest of the three sample breweries, fetched over two
\* pages, has returned.
C4_Witness ==
    /\ ret.op = "ingest" /\ ret.outcome = "returned"
    /\ loop.all_breweries = <<Brewery1, Brewery2, Brewery3>>
    /\ Len(requests) = 2
    /\ bronze[ret.date].metadata[Val(ret.value).timestamp].record_count = 3

\* C5: an ingest_breweries call that returns adds a raw file to the
\* partition of its date: the file it writes was not there before, and every
\* raw file that was there is still there with its content, however close
\* in time the calls are.
C5_SecondIngestNeverOverwrites ==
    [][(Called("ingest") /\ ret'.outcome = "returned") =>
          LET D == ret'.date
              timestamp == Val(ret'.value).timestamp
          IN  /\ timestamp \notin DOMAIN bronze[D].breweries
              /\ \A t \in DOMAIN bronze[D].breweries :
                    /\ t \in DOMAIN bronze'[D].breweries
                    /\ bronze'[D].breweries[t] = bronze[D].breweries[t]]_vars

(***************************************************************************)
(* Properties of the curated and aggregated layers.                        *)
(***************************************************************************)
IdsOf(rows) == {r.id : r \in DOMAIN rows}
\* No identifier (null included) on more than one row of the bag.
OneRowPerId(rows) ==
    /\ \A r \in DOMAIN rows : rows[r] = 1
    /\ \A r1, r2 \in DOMAIN rows : r1.id = r2.id => r1 = r2
\* The identifiers of the rows Spark reads from the raw partition.
RawIds(part) == {r.id : r \in Range(ReadJson(part))}

\* C6: a transform_to_silver call that returns right after a returned
\* transform_to_silver call for the same date (the raw partition is
\* unchanged in between) leaves the curated partition with as many rows as
\* before, for the same identifiers, one row per identifier, and no staging
\* directory: the second output replaces the first.
C6_SecondTransformOverwrites ==
    [][(/\ ret.op = "transform" /\ ret.outcome = "returned"
        /\ Called("transform") /\ ret'.outcome = "returned"
        /\ ret'.date = ret.date) =>
          LET D == ret.date
          IN  /\ silver'[D].written /\ ~silver'[D].staging
              /\ BagCardinality(silver'[D].rows) = BagCardinality(silver[D].rows)
              /\ IdsOf(silver'[D].rows) = IdsOf(silver[D].rows)
              /\ OneRowPerId(silver'[D].rows)]_vars

\* C6 witness: a transform has returned after removing the output of an
\* earlier transform of the same date, a second later, over one raw batch of
\* the three sample breweries.
C6_Witness ==
    /\ ret.op = "transform" /\ ret.outcome = "returned" /\ ret.removed
    /\ calls = 3
    /\ DOMAIN bronze[ret.date].breweries = {1}
    /\ bronze[ret.date].breweries[1] = <<Brewery1, Brewery2, Brewery3>>
    /\ BagCardinality(silver[ret.date].rows) = 4
    /\ \A r \in DOMAIN silver[ret.date].rows : r.processing_timestamp = 2

\* The rows of table t of the aggregated partition of date d.
GoldTable(d, t) == Val(gold[d].tables[t])
\* Sum of column total_breweries over the rows of a table.
RECURSIVE SumTotalBreweries(_, _)
SumTotalBreweries(table, rows) ==
    IF rows = {} THEN 0
    ELSE LET r == CHOOSE x \in rows : TRUE
         IN  r.total_breweries * table[r] + SumTotalBreweries(table, rows \ {r})
\* Sum of column unique_breweries over the rows of a table.
RECURSIVE SumUniqueBreweries(_, _)
SumUniqueBreweries(table, rows) ==
    IF rows = {} THEN 0
    ELSE LET r == CHOOSE x \in rows : TRUE
         IN  r.unique_breweries * table[r] + SumUniqueBreweries(table, rows \ {r})

\* The identifiers of the latest raw batch of a partition.
LatestTimestamp(part) ==
    CHOOSE t \in DOMAIN part.breweries : \A u \in DOMAIN part.breweries : u <= t
LatestIds(part) == {b.id : b \in Range(part.breweries[LatestTimestamp(part)])}
\* The curated partition of date d is a transform of its present raw partition.
CuratedUpToDate(d) ==
    /\ silver[d].written
    /\ bronze[d].exists
    /\ IdsOf(silver[d].rows) = RawIds(bronze[d])

\* C7 as claimed: in every layer the partition of a date derives from the
\* latest run only: every record of the raw partition has its identifier in
\* the latest batch, after a returned transform so has every curated row
\* that has an identifier, and after a returned aggregate of an up-to-date
\* curated partition the tables count no more breweries than the latest
\* batch has identifiers.
C7_RerunOverwritesEveryLayer ==
    \A d \in Dates :
        DOMAIN bronze[d].breweries # {} =>
            /\ \A t \in DOMAIN bronze[d].breweries :
                  \A b \in Range(bronze[d].breweries[t]) : b.id \in LatestIds(bronze[d])
            /\ (ret.op = "transform" /\ ret.outcome = "returned" /\ ret.date = d) =>
                  \A r \in DOMAIN silver[d].rows :
                      ~IsNull(r.id) => r.id \in LatestIds(bronze[d])
            /\ (/\ ret.op = "aggregate" /\ ret.outcome = "returned" /\ ret.date = d
                /\ CuratedUpToDate(d)) =>
                  SumUniqueBreweries(GoldTable(d, "brewery_by_type_and_location"),
                                     DOMAIN GoldTable(d, "brewery_by_type_and_location"))
                      <= Cardinality(LatestIds(bronze[d]))

\* C7 as amended: a returned transform_to_silver leaves in the curated
\* partition exactly one row per identifier of the raw documents now in the
\* raw partition and no staging directory; a returned
\* create_gold_aggregations leaves the three tables, counting exactly the
\* rows of the curated partition; a returned ingest_breweries keeps every
\* raw batch of another timestamp as it was.
C7_RerunOverwritesCuratedAndAggregated ==
    [][/\ (Called("transform") /\ ret'.outcome = "returned") =>
            LET D == ret'.date
            IN  /\ silver'[D].written /\ ~silver'[D].staging
                /\ IdsOf(silver'[D].rows) = RawIds(bronze[D])
                /\ OneRowPerId(silver'[D].rows)
       /\ (Called("aggregate") /\ ret'.outcome = "returned") =>
            LET D == ret'.date
            IN  /\ ~gold'[D].staging
                /\ \A t \in Range(TableNames) : ~IsNull(gold'[D].tables[t])
                /\ \A t \in {"brewery_by_type", "brewery_by_location"} :
                      LET table == Val(gold'[D].tables[t])
                      IN  SumTotalBreweries(table, DOMAIN table)
                              = BagCardinality(silver[D].rows)
       /\ (Called("ingest") /\ ret'.outcome = "returned") =>
            LET D == ret'.date
            IN  \A t \in DOMAIN bronze[D].breweries \ {Val(ret'.value).timestamp} :
                    /\ t \in DOMAIN bronze'[D].breweries
                    /\ bronze'[D].breweries[t] = bronze[D].breweries[t]]_vars

\* C7 witness: after two ingests of different upstreams for one date, a
\* transform and an aggregate that returned, the curated partition still
\* has the brewery that only the first fetch had.
C7_Witness ==
    /\ ret.op = "aggregate" /\ ret.outcome = "returned"
    /\ DOMAIN bronze[ret.date].breweries = {1, 2}
    /\ bronze[ret.date].breweries[1] = <<Brewery1, Brewery2, Brewery3>>
    /\ bronze[ret.date].breweries[2] = <<Brewery1Changed, Brewery1>>
    /\ CuratedUpToDate(ret.date)
    /\ Brewery2.id \in IdsOf(silver[ret.date].rows)
    /\ Brewery2.id \notin LatestIds(bronze[ret.date])

\* The raw partition as the first of its runs left it.
FirstTimestamp(part) ==
    CHOOSE t \in DOMAIN part.breweries : \A u \in DOMAIN part.breweries : t <= u
AfterFirstRun(part) ==
    [part EXCEPT !.breweries = FirstTimestamp(part) :> part.breweries[FirstTimestamp(part)],
                 !.metadata = FirstTimestamp(part) :> part.metadata[FirstTimestamp(part)]]
\* Two runs have ingested the same batch into the partition.
IngestedTwiceUnchanged(part) ==
    /\ Cardinality(DOMAIN part.breweries) = 2
    /\ \A t, u \in DOMAIN part.breweries : part.breweries[t] = part.breweries[u]
\* Curated rows, aggregated tables, without their processing / aggregation
\* timestamps.
CuratedData(rows) == {[r EXCEPT !.processing_timestamp = 0] : r \in DOMAIN rows}
AggregatedData(tables) ==
    [t \in DOMAIN tables |-> {[r EXCEPT !.aggregation_timestamp = 0] : r \in DOMAIN tables[t]}]
\* What one run of transform, of transform then aggregate, can produce.
CuratedOnce(part) == {CuratedData(rows) : rows \in clean_and_transform(ReadJson(part), 0)}
AggregatedOnce(part) ==
    {AggregatedData(Aggregations(rows, 0)) : rows \in clean_and_transform(ReadJson(part), 0)}

\* C8: once ingest has run twice for a date against an unchanged upstream,
\* the curated data a returned transform leaves, and the aggregated data a
\* returned aggregate of that curated partition leaves, are data a single
\* run of the pipeline produces, timestamps aside.
C8_PipelineIdempotentPerRunDate ==
    \A d \in Dates :
        IngestedTwiceUnchanged(bronze[d]) =>
            /\ (ret.op = "transform" /\ ret.outcome = "returned" /\ ret.date = d) =>
                  CuratedData(silver[d].rows) \in CuratedOnce(AfterFirstRun(bronze[d]))
            /\ (/\ ret.op = "aggregate" /\ ret.outcome = "returned" /\ ret.date = d
                /\ CuratedData(silver[d].rows) \in CuratedOnce(bronze[d])) =>
                  AggregatedData([t \in Range(TableNames) |-> GoldTable(d, t)])
                      \in AggregatedOnce(AfterFirstRun(bronze[d]))

\* C9 as claimed: a stage call for run date D leaves the partitions of every
\* other date as they were, in every layer.
C9_OtherDatesUntouched ==
    [][\A D \in Dates :
          (calls' = calls + 1 /\ ret'.date = D) =>
              \A x \in Dates \ {D} :
                  /\ bronze'[x] = bronze[x]
                  /\ silver'[x] = silver[x]
                  /\ gold'[x] = gold[x]]_vars

\* The partition but for its staging directory.
WithoutStaging(part) == [part EXCEPT !.staging = FALSE]

\* C9 as amended: a stage call for run date D leaves the raw partitions of
\* every other date as they were, and changes nothing in their curated and
\* aggregated partitions but a staging directory, which it may remove and
\* never creates.
C9_OtherDatesKeepTheirData ==
    [][\A D \in Dates :
          (calls' = calls + 1 /\ ret'.date = D) =>
              \A x \in Dates \ {D} :
                  /\ bronze'[x] = bronze[x]
                  /\ WithoutStaging(silver'[x]) = WithoutStaging(silver[x])
                  /\ silver'[x].staging => silver[x].staging
                  /\ WithoutStaging(gold'[x]) = WithoutStaging(gold[x])
                  /\ gold'[x].staging => gold[x].staging]_vars

\* C9 witness: both dates have their own raw batch, a transform for one
\* date has returned, and the curated partition of the other date, left
\* unwritten by a failed write, has lost its staging directory.
C9_Witness ==
    /\ ret.op = "transform" /\ ret.outcome = "returned"
    /\ \A d \in Dates : bronze[d].exists
    /\ \E x \in Dates \ {ret.date} :
          /\ silver[x].exists /\ ~silver[x].written /\ ~silver[x].staging
          /\ bronze[x].breweries # bronze[ret.date].breweries

\* C10: every curated partition written has at most one row per identifier.
C10_OneCuratedRecordPerIdentifier ==
    \A d \in Dates : silver[d].written => OneRowPerId(silver[d].rows)

\* C10 witness: a transform has returned over a raw partition of two
\* batches, one of them with the same identifier twice, and kept fewer rows
\* than it read.
C10_Witness ==
    /\ ret.op = "transform" /\ ret.outcome = "returned"
    /\ Cardinality(DOMAIN bronze[ret.date].breweries) = 2
    /\ \E t \in DOMAIN bronze[ret.date].breweries :
          bronze[ret.date].breweries[t] = <<Brewery1Changed, Brewery1>>
    /\ BagCardinality(silver[ret.date].rows) < Len(ReadJson(bronze[ret.date]))
    /\ Brewery1.id \in IdsOf(silver[ret.date].rows)

\* The columns a curated row takes over from its raw row.
SourceColumns == DOMAIN BreweryRow(Brewery1) \ {"processing_timestamp"}
MadeFrom(row, raw) == \A c \in SourceColumns : row[c] = raw[c]

\* C11 (as stated): when the raw rows of a date hold two records of one id
\* whose processing timestamps differ, the curated partition a transform
\* writes has exactly one row of that id, made from the record with the
\* later processing timestamp.
C11_LaterStampedRecordKept ==
    [][(Called("transform") /\ ret'.outcome = "returned") =>
          LET raw == ReadJson(bronze[ret'.date])
              rows == silver'[ret'.date].rows
          IN  \A i, j \in DOMAIN raw :
                  (/\ raw[i].id = raw[j].id
                   /\ ~IsNull(raw[i].processing_timestamp)
                   /\ ~IsNull(raw[j].processing_timestamp)
                   /\ Val(raw[i].processing_timestamp) < Val(raw[j].processing_timestamp))
                  => /\ OneRowPerId(rows)
                     /\ \E r \in DOMAIN rows : r.id = raw[j].id /\ MadeFrom(r, raw[j])]_vars

\* t is str without the spaces at its two ends.
IsTrimmed(t, str) ==
    \E i, j \in 0..Len(str) :
        /\ i + j <= Len(str)
        /\ t = SubSeq(str, i + 1, Len(str) - j)
        /\ \A k \in 1..i : str[k] = " "
        /\ \A k \in (Len(str) - j + 1)..Len(str) : str[k] = " "
        /\ t # <<>> => t[1] # " " /\ t[Len(t)] # " "

\* out is the normal form of the text x: the default for a null or empty
\* x, else the trimmed text with every character mapped by Char.
Normalised(out, x, default, Char(_)) ==
    IF IsNull(x) \/ Val(x) = <<>>
    THEN out = default
    ELSE \E i, j \in 0..Len(Val(x)) :
            LET t == SubSeq(Val(x), i + 1, Len(Val(x)) - j)
            IN  /\ i + j <= Len(Val(x))
                /\ IsTrimmed(t, Val(x))
                /\ out = [k \in DOMAIN t |-> Char(t[k])]

CountryChar(c) == IF c = " " THEN "_" ELSE UpperChar(c)
RegionChar(c) == IF c = " " THEN "_" ELSE c

\* C12: in every curated row, country_normalized, state_province_normalized
\* and brewery_type_normalized are "Unknown", "Unknown", "unknown" for a
\* null or empty source field, and otherwise the source text trimmed and
\* then upper-cased with spaces as underscores (country), with spaces as
\* underscores and its case kept (region), lower-cased (category).
C12_NormalisedFields ==
    \A d \in Dates : silver[d].written =>
        \A r \in DOMAIN silver[d].rows :
            /\ Normalised(r.country_normalized, r.country, Unknown, CountryChar)
            /\ Normalised(r.state_province_normalized, r.state_province, Unknown, RegionChar)
            /\ Normalised(r.brewery_type_normalized, r.brewery_type, unknown, LowerChar)

\* C12 witness: a curated row of the text " a B" (a leading space, an inner
\* space, both cases) in its three fields.
C12_Witness ==
    /\ ret.op = "transform" /\ ret.outcome = "returned"
    /\ \E r \in DOMAIN silver[ret.date].rows :
          /\ r.country = Some(<<" ", "a", " ", "B">>)
          /\ r.state_province = r.country /\ r.brewery_type = r.country
          /\ r.country_normalized = <<"A", "_", "B">>
          /\ r.state_province_normalized = <<"a", "_", "B">>
          /\ r.brewery_type_normalized = <<"a", " ", "b">>

\* The field x spells a finite number.
ParsesFinite(x) ==
    /\ ~IsNull(x)
    /\ ~IsNull(CastDouble(Val(x)))
    /\ ~IsNonFinite(Trim(Val(x)))

\* C13 (as stated): in every curated row has_coordinates is true exactly when
\* latitude and longitude both spell a finite number, and the numeric field
\* of a coordinate that is null, empty, unparseable or non-finite is null.
C13_HasCoordinatesIffBothFinite ==
    \A d \in Dates : silver[d].written =>
        \A r \in DOMAIN silver[d].rows :
            /\ r.has_coordinates <=> (ParsesFinite(r.latitude) /\ ParsesFinite(r.longitude))
            /\ ~ParsesFinite(r.latitude) => IsNull(r.latitude_numeric)
            /\ ~ParsesFinite(r.longitude) => IsNull(r.longitude_numeric)

\* A segment of the address: the field's text, empty when it is null.
Segment(x) == IF IsNull(x) THEN <<>> ELSE Val(x)

\* C14 (as stated): in every curated row of a brewery full_address is the
\* six segments street, address_1, city, state_province, postal_code,
\* country joined by ", ", a null or empty field giving an empty segment, so
\* that five separators are always there.
C14_FullAddressHasSixSegments ==
    \A d \in Dates : silver[d].written =>
        \A r \in DOMAIN silver[d].rows :
            ~IsNull(r.id) =>
            r.full_address =
                Segment(r.street) \o CommaSpace \o Segment(r.address_1) \o CommaSpace
                \o Segment(r.city) \o CommaSpace \o Segment(r.state_province) \o CommaSpace
                \o Segment(r.postal_code) \o CommaSpace \o Segment(r.country)

\* C15: a transform for a date without a raw partition, and an aggregate for
\* a date without a curated partition, raise FileNotFoundError and leave
\* every partition of their own layer as it was.
C15_MissingInputRaisesAndChangesNothing ==
    [][/\ (Called("transform") /\ ~bronze[ret'.date].exists) =>
              ret'.outcome = "FileNotFoundError" /\ silver' = silver
       /\ (Called("aggregate") /\ ~silver[ret'.date].exists) =>
              ret'.outcome = "FileNotFoundError" /\ gold' = gold]_vars

\* C15 witness: a transform has raised FileNotFoundError for a date without
\* a raw partition while the curated layer holds, under another date, the
\* staging directory an interrupted write left behind.
C15_Witness ==
    /\ ret.op = "transform" /\ ret.outcome = "FileNotFoundError"
    /\ ~bronze[ret.date].exists /\ ~silver[ret.date].exists
    /\ \E x \in Dates \ {ret.date} : silver[x].exists /\ silver[x].staging

\* The same for an aggregate: the aggregated layer keeps a staging directory.
AggregateRaisedOnMissingInput ==
    /\ ret.op = "aggregate" /\ ret.outcome = "FileNotFoundError"
    /\ ~silver[ret.date].exists
    /\ \E x \in Dates \ {ret.date} : gold[x].exists /\ gold[x].staging

\* Sum of a column over the rows of a table.
RECURSIVE SumColumn(_, _, _)
SumColumn(table, rows, column) ==
    IF rows = {} THEN 0
    ELSE LET r == CHOOSE x \in rows : TRUE
         IN  r[column] * table[r] + SumColumn(table, rows \ {r}, column)

Distance(a, b) == IF a < b THEN b - a ELSE a - b
\* v is num / den * 100 rounded to 2 decimals, in hundredths.
IsRoundedPercent(v, num, den) == 2 * Distance(v * den, 10000 * num) <= den

\* C16: in every brewery_by_type_and_location table written, the
\* percentage_of_location of a row is its brewery_count over the
\* brewery_count of all rows of its (country, state_province), times 100,
\* rounded to 2 decimals, and the values of one (country, state_province)
\* sum to 100.00 within half a hundredth for each row of the group.
C16_PercentagesOfLocationSumTo100 ==
    \A d \in Dates : ~IsNull(gold[d].tables["brewery_by_type_and_location"]) =>
        LET table == GoldTable(d, "brewery_by_type_and_location")
            Location(r) == {x \in DOMAIN table : /\ x.country = r.country
                                                 /\ x.state_province = r.state_province}
        IN  \A r \in DOMAIN table :
                /\ IsRoundedPercent(r.percentage_of_location, r.brewery_count,
                                    SumColumn(table, Location(r), "brewery_count"))
                /\ 2 * Distance(SumColumn(table, Location(r), "percentage_of_location"), 10000)
                      <= Cardinality(Location(r))

\* C16 witness: an aggregate has returned a table in which one location has
\* three types of one brewery each, 33.33 percent each, 99.99 in all.
C16_Witness ==
    /\ ret.op = "aggregate" /\ ret.outcome = "returned"
    /\ LET table == GoldTable(ret.date, "brewery_by_type_and_location")
       IN  \E r \in DOMAIN table :
              LET Location == {x \in DOMAIN table : /\ x.country = r.country
                                                    /\ x.state_province = r.state_province}
              IN  /\ Cardinality(Location) = 3
                  /\ \A x \in Location : x.brewery_count = 1 /\ x.percentage_of_location = 3333
                  /\ SumColumn(table, Location, "percentage_of_location") = 9999

\* C17: in every table written the derived ratios lie between 0 and 100.  In
\* brewery_by_type_and_location each row counts at least one brewery, its
\* with_coordinates and with_contact_info are at most its brewery_count,
\* its data_quality_score is (with_coordinates + with_contact_info) /
\* (2 * brewery_count) * 100 rounded, and its percentage_of_location is at
\* most 100; in brewery_by_type each row counts at least one brewery and at
\* most the grand total, and its percentage_of_total is at most 100.
C17_RatiosBetween0And100 ==
    \A d \in Dates :
        /\ ~IsNull(gold[d].tables["brewery_by_type_and_location"]) =>
              \A r \in DOMAIN GoldTable(d, "brewery_by_type_and_location") :
                  /\ r.brewery_count >= 1
                  /\ r.with_coordinates \in 0..r.brewery_count
                  /\ r.with_contact_info \in 0..r.brewery_count
                  /\ IsRoundedPercent(r.data_quality_score,
                                      r.with_coordinates + r.with_contact_info,
                                      2 * r.brewery_count)
                  /\ r.data_quality_score \in 0..10000
                  /\ r.percentage_of_location \in 0..10000
        /\ ~IsNull(gold[d].tables["brewery_by_type"]) =>
              LET table == GoldTable(d, "brewery_by_type")
              IN  \A r \in DOMAIN table :
                      /\ r.total_breweries >= 1
                      /\ r.total_breweries <= SumColumn(table, DOMAIN table, "total_breweries")
                      /\ r.percentage_of_total \in 0..10000

\* C17 witness: an aggregate has returned tables with a group of two
\* breweries that both have coordinates and contact fields (score 100), a
\* group with neither (score 0), and a type with half of all rows.
C17_Witness ==
    /\ ret.op = "aggregate" /\ ret.outcome = "returned"
    /\ \E r \in DOMAIN GoldTable(ret.date, "brewery_by_type_and_location") :
          /\ r.brewery_count = 2 /\ r.with_coordinates = 2 /\ r.with_contact_info = 2
          /\ r.data_quality_score = 10000 /\ r.percentage_of_location = 10000
    /\ \E r \in DOMAIN GoldTable(ret.date, "brewery_by_type_and_location") :
          r.data_quality_score = 0
    /\ \E r \in DOMAIN GoldTable(ret.date, "brewery_by_type") :
          r.total_breweries = 2 /\ r.percentage_of_total = 5000

\* The run was over the three sample breweries and its aggregate returned.
SampleRunAggregated ==
    /\ ret.op = "aggregate" /\ ret.outcome = "returned"
    /\ \E t \in Times : bronze[ret.date].breweries = (t :> <<Brewery1, Brewery2, Brewery3>>)

\* C18 (as stated): after ingest, transform and aggregate over the three
\* sample breweries the brewery_by_type table has a row for "micro" with
\* brewery_count = 2 and the data_quality_score of the two micro breweries,
\* (1 + 2) / (2 * 2) * 100 = 75.00.
C18_ByTypeHasBreweryCountAndScore ==
    SampleRunAggregated =>
        \E r \in DOMAIN GoldTable(ret.date, "brewery_by_type") :
            /\ r.brewery_type = Str_micro
            /\ "brewery_count" \in DOMAIN r /\ r.brewery_count = 2
            /\ "data_quality_score" \in DOMAIN r /\ r.data_quality_score = 7500

\* C18 (amended): the brewery_by_type table has a row for "micro" with
\* total_breweries = 2, and the brewery_by_type_and_location table has one
\* row per sample brewery with brewery_count = 1 and data_quality_score =
\* (with_coordinates + with_contact_info) / (2 * brewery_count) * 100: 100.00
\* for the one with both, 50.00 for the two that miss one of them.
C18_SampleRunAggregates ==
    SampleRunAggregated =>
        /\ \E r \in DOMAIN GoldTable(ret.date, "brewery_by_type") :
              r.brewery_type = Str_micro /\ r.total_breweries = 2
        /\ LET table == GoldTable(ret.date, "brewery_by_type_and_location")
               Row(region, type, coords, contact, score) ==
                   \E r \in DOMAIN table :
                       /\ r.state_province = region /\ r.brewery_type = type
                       /\ r.brewery_count = 1
                       /\ r.with_coordinates = coords /\ r.with_contact_info = contact
                       /\ r.data_quality_score = score
                       /\ IsRoundedPercent(score, coords + contact, 2 * r.brewery_count)
           IN  /\ Row(Str_California, Str_micro, 1, 1, 10000)
               /\ Row(Str_Oregon, Str_regional, 1, 0, 5000)
               /\ Row(Str_Colorado, Str_micro, 0, 1, 5000)

\* C18 witness: the sample run has aggregated; "micro" is half of the four
\* rows of the curated partition.
C18_Witness ==
    /\ SampleRunAggregated
    /\ BagCardinality(silver[ret.date].rows) = 4
    /\ \E r \in DOMAIN GoldTable(ret.date, "brewery_by_type") :
          r.brewery_type = Str_micro /\ r.percentage_of_total = 5000

\* C19: an adapter whose construction failed (library absent, credentials
\* file absent, client construction error) is disabled, and every later
\* call on it leaves it disabled, returns False (is_enabled and the three
\* mutating calls) or the empty list (the listing) without raising, does
\* not use storage_client and leaves the bucket as it was.
C19_FailedConstructionDisablesForever ==
    [][/\ (adapter'.constructed /\ adapter'.failure # "none") => ~adapter'.enabled
       /\ (adapter.constructed /\ adapter.failure # "none" /\ adapter'.calls = adapter.calls + 1) =>
              /\ adapter'.result.outcome = "returned"
              /\ adapter'.result.value = FALSE
              /\ adapter'.result.list = {}
              /\ adapter'.client_calls = adapter.client_calls
              /\ adapter'.storage_client = adapter.storage_client
              /\ bucket' = bucket]_vars

\* C19 witness: the client could not be constructed, the bucket holds an
\* object, and after calls of several methods, the last a
\* clear_bucket_layer, the object is still there and storage_client unused.
C19_Witness ==
    /\ adapter.constructed /\ adapter.failure = "client construction error"
    /\ adapter.calls >= 3
    /\ adapter.result.op = "clear_bucket_layer" /\ adapter.result.value = FALSE
    /\ adapter.client_calls = 0
    /\ BlobPath("bronze", JsonFile) \in DOMAIN bucket.objects

\* A call on an enabled adapter returns, whatever the SDK did: True only
\* when the whole write or delete went through, a list of blobs of the
\* bucket, and else False or the empty list.
EnabledAdapterNeverRaises ==
    (adapter.constructed /\ adapter.enabled /\ adapter'.calls = adapter.calls + 1) =>
        LET result == adapter'.result
            objects == bucket'.objects
        IN  /\ result.outcome = "returned"
            /\ result.list \subseteq DOMAIN bucket.objects
            /\ (result.op = "save_json_to_gcs" /\ result.value) =>
                   \E l \in GcsLayers : BlobPath(l, JsonFile) \in DOMAIN objects
            /\ (result.op = "save_parquet_to_gcs" /\ result.value) =>
                   \E l \in GcsLayers : \A i \in DOMAIN ParquetFiles :
                       BlobPath(l, ParquetFolder \o ParquetFiles[i]) \in DOMAIN objects
            /\ (result.op = "clear_bucket_layer" /\ result.value) =>
                   \E l \in GcsLayers : list_blobs(objects, l) = {}
            /\ (result.op \notin {"is_enabled", "get_file_list_in_layer"} /\ ~result.value) =>
                   DOMAIN objects \subseteq DOMAIN bucket.objects
                       \cup {BlobPath(l, ParquetFolder \o ParquetFiles[1]) : l \in GcsLayers}

\* An ingest with a bucket has written its batch and its upload has failed.
IngestUploadFailed ==
    /\ Called("ingest")
    /\ bucket.configured
    /\ loop'.pc = "returned" /\ loop'.all_breweries # <<>>
    /\ BlobPath("bronze", GcsFile(ret'.date, now)) \notin DOMAIN bucket'.objects

\* C20 (as stated): a call on an enabled adapter never raises, and an ingest
\* whose upload fails returns its output path and leaves the raw layer
\* exactly as an ingest without mirroring does.
C20_UploadFailureAsIfDisabled ==
    [][/\ EnabledAdapterNeverRaises
       /\ IngestUploadFailed =>
              /\ ret' = Returned("ingest", ret'.date, RawFile(ret'.date, now), FALSE)
              /\ bronze' = [bronze EXCEPT ![ret'.date] =
                               WriteBronze(@, ret'.date, now, loop'.all_breweries, FALSE)]]_vars

\* A raw partition with the mirror status of its metadata documents blanked.
MirrorStatusAside(part) ==
    [part EXCEPT !.metadata = [t \in DOMAIN @ |-> [@[t] EXCEPT !.gcs_enabled = FALSE]]]

\* C20 (amended): a call on an enabled adapter never raises, and an ingest
\* whose upload fails returns its output path and leaves the raw layer as an
\* ingest without mirroring does, but for the metadata document, which
\* records gcs_enabled = true.
C20_UploadFailureNeverPropagates ==
    [][/\ EnabledAdapterNeverRaises
       /\ IngestUploadFailed =>
              LET D == ret'.date
              IN  /\ ret' = Returned("ingest", D, RawFile(D, now), FALSE)
                  /\ \A x \in Dates \ {D} : bronze'[x] = bronze[x]
                  /\ MirrorStatusAside(bronze'[D]) =
                         MirrorStatusAside(WriteBronze(bronze[D], D, now,
                                                       loop'.all_breweries, FALSE))
                  /\ bronze'[D].metadata[now].gcs_enabled]_vars

\* C20 witness: the ingest returned although its upload failed (nothing is
\* in the bucket under its name), and then a save_parquet_to_gcs on an
\* enabled adapter returned False after the first of its two uploads.
C20_Witness ==
    /\ ret.op = "ingest" /\ ret.outcome = "returned"
    /\ bucket.configured
    /\ list_blobs(bucket.objects, "bronze") = {}
    /\ adapter.enabled /\ adapter.client_calls >= 1
    /\ adapter.result.op = "save_parquet_to_gcs" /\ ~adapter.result.value
    /\ BlobPath("silver", ParquetFolder \o ParquetFiles[1]) \in DOMAIN bucket.objects
    /\ BlobPath("silver", ParquetFolder \o ParquetFiles[2]) \notin DOMAIN bucket.objects

\* C27 (as stated): after a returned transform of a date, the curated
\* partition has exactly the identifiers of the brewery records of the raw
\* batch documents, one row for each; the metadata documents give no row.
C27_CuratedRowsAreBreweries ==
    \A d \in Dates : silver[d].written =>
        /\ IdsOf(silver[d].rows) = {b.id : b \in UNION {Range(bronze[d].breweries[t]) : t \in DOMAIN bronze[d].breweries}}
        /\ BagCardinality(silver[d].rows) = Cardinality(IdsOf(silver[d].rows))
        /\ \A r \in DOMAIN silver[d].rows : IsNull(r.record_count)

\* C29 (as stated): in every curated row of a brewery the three normalised
\* fields are non-empty texts (they are never null), and the normalised
\* country and region hold no space; so also when the source field is
\* blanks only.
C29_NormalisedFieldsArePartitionSafe ==
    \A d \in Dates : silver[d].written =>
        \A r \in DOMAIN silver[d].rows :
            ~IsNull(r.id) =>
                /\ r.country_normalized # <<>>
                /\ r.state_province_normalized # <<>>
                /\ r.brewery_type_normalized # <<>>
                /\ \A i \in DOMAIN r.country_normalized : r.country_normalized[i] # " "
                /\ \A i \in DOMAIN r.state_province_normalized :
                      r.state_province_normalized[i] # " "

\* C28: the tables of a returned aggregate conserve the count of the curated
\* rows read: brewery_count over brewery_by_type_and_location,
\* total_breweries over brewery_by_type and total_breweries over
\* brewery_by_location each sum to the number of curated rows, and every
\* curated row has its key in exactly one row of each table.
C28_AggregatesConserveRecordCount ==
    (ret.op = "aggregate" /\ ret.outcome = "returned") =>
        LET rows == silver[ret.date].rows
            n == BagCardinality(rows)
            tl == GoldTable(ret.date, "brewery_by_type_and_location")
            t == GoldTable(ret.date, "brewery_by_type")
            l == GoldTable(ret.date, "brewery_by_location")
        IN  /\ SumColumn(tl, DOMAIN tl, "brewery_count") = n
            /\ SumColumn(t, DOMAIN t, "total_breweries") = n
            /\ SumColumn(l, DOMAIN l, "total_breweries") = n
            /\ \A r \in DOMAIN rows :
                  /\ Cardinality({x \in DOMAIN tl :
                        /\ x.country = r.country_normalized
                        /\ x.state_province = r.state_province_normalized
                        /\ x.brewery_type = r.brewery_type_normalized}) = 1
                  /\ Cardinality({x \in DOMAIN t :
                        x.brewery_type = r.brewery_type_normalized}) = 1
                  /\ Cardinality({x \in DOMAIN l :
                        /\ x.country = r.country_normalized
                        /\ x.state_province = r.state_province_normalized}) = 1

\* C28 witness: an aggregate has returned over four curated rows that fall
\* in three rows by type and location (one of two breweries), three by type
\* and two by location.
C28_Witness ==
    /\ ret.op = "aggregate" /\ ret.outcome = "returned"
    /\ BagCardinality(silver[ret.date].rows) = 4
    /\ BagCardinality(GoldTable(ret.date, "brewery_by_type_and_location")) = 3
    /\ \E x \in DOMAIN GoldTable(ret.date, "brewery_by_type_and_location") :
          x.brewery_count = 2
    /\ BagCardinality(GoldTable(ret.date, "brewery_by_type")) = 3
    /\ BagCardinality(GoldTable(ret.date, "brewery_by_location")) = 2

\* C26 (as stated): of the raw rows of one id, which all get the same
\* processing timestamp, a returned transform keeps the one that comes last
\* in the input.
C26_LastCopyInInputOrderKept ==
    [][(Called("transform") /\ ret'.outcome = "returned") =>
          LET raw == ReadJson(bronze[ret'.date])
              rows == silver'[ret'.date].rows
          IN  \A i \in DOMAIN raw :
                  (\A j \in DOMAIN raw : raw[j].id = raw[i].id => j <= i)
                  => \E r \in DOMAIN rows : r.id = raw[i].id /\ MadeFrom(r, raw[i])]_vars

\* C25: an ingest in which the request for any page fails raises the
\* transport error and writes nothing, whatever it had fetched before; an
\* ingest that returns has had every page it requested answered.
C25_FetchFailureWritesNothing ==
    [][Called("ingest") =>
          LET failed == \E i \in DOMAIN requests' :
                            ~fetch_breweries(transport', requests'[i].page, PerPage).ok
          IN  /\ failed => /\ ret'.outcome = "RequestException"
                           /\ bronze' = bronze
                           /\ bucket' = bucket
              /\ ret'.outcome = "returned" => ~failed]_vars

\* C25 witness: an ingest has raised on its second page, with the first
\* page fetched, and the raw partition of its date does not exist.
C25_Witness ==
    /\ ret.op = "ingest" /\ ret.outcome = "RequestException"
    /\ Len(requests) >= 2
    /\ Len(loop.all_breweries) = PerPage
    /\ ~bronze[ret.date].exists

\* C23: the quality check returns exactly when the raw partition of its date
\* holds a JSON document and the curated and the aggregated partitions hold
\* written parquet data; otherwise it raises ValueError with a message that
\* names every layer whose data is missing, and no other.  It changes
\* nothing in the lake.
C23_QualityCheckNamesEveryMissingLayer ==
    [][Called("data_quality_check") =>
          LET d == ret'.date
              missing ==
                  (IF bronze[d].exists
                      /\ \E t \in Times : t \in DOMAIN bronze[d].breweries
                                           \/ t \in DOMAIN bronze[d].metadata
                   THEN {} ELSE {"Bronze"})
                  \cup (IF silver[d].exists /\ silver[d].written THEN {} ELSE {"Silver"})
                  \cup (IF gold[d].exists
                           /\ \E t \in Range(TableNames) : ~IsNull(gold[d].tables[t])
                        THEN {} ELSE {"Gold"})
          IN  /\ ret'.outcome = "returned" <=> missing = {}
              /\ ret'.outcome = "returned" =>
                    /\ Val(ret'.value).failed = <<>>
                    /\ Val(ret'.value).passed = Layers
              /\ missing # {} =>
                    /\ ret'.outcome = "ValueError"
                    /\ Range(Val(ret'.value).failed) = missing
              /\ UNCHANGED <<bronze, silver, gold, bucket>>]_vars

\* C23 witness: the check has raised after an ingest alone, naming the
\* curated and the aggregated layer and not the raw one.
C23_Witness ==
    /\ ret.op = "data_quality_check" /\ ret.outcome = "ValueError"
    /\ Val(ret.value).failed = <<"Silver", "Gold">>
    /\ LayerDataExists("Bronze", ret.date)

\* The call of each stage made by a task of the DAG.
StageTasks ==
    <<"ingest_from_api", "transform_and_partition", "create_aggregations",
      "data_quality_check">>
StageCalls == <<"ingest", "transform", "aggregate", "data_quality_check">>
\* The tasks that have been started.
Started == {"running", "success", "failed", "up_for_retry"}
StagesInSequence ==
    /\ Cardinality({t \in Range(Tasks) : dag.state[t] = "running"}) <= 1
    /\ \A i \in 2..Len(Tasks) :
          /\ dag.state[Tasks[i]] \in Started => dag.state[Tasks[i - 1]] = "success"
          /\ dag.state[Tasks[i - 1]] \in {"failed", "upstream_failed", "up_for_retry"}
                => dag.state[Tasks[i]] \in {"none", "upstream_failed"}

\* C22: in a run of the DAG at most one task is running; a task has been
\* started only if the task before it in the chain has succeeded, and is
\* never started after that task failed; and each stage is called only by
\* its own running task, after the stage before it has returned in this run.
C22_StagesRunInSequence ==
    [][/\ StagesInSequence'
       /\ \A k \in DOMAIN StageCalls :
             Called(StageCalls[k]) =>
                /\ dag.state[StageTasks[k]] = "running"
                /\ ret'.date = dag.ds
                /\ \A j \in 1..(k - 1) : dag.state[StageTasks[j]] = "success"
                /\ k > 1 => /\ ret.op \in {StageCalls[k - 1], StageCalls[k]}
                            /\ ret.op = StageCalls[k - 1] => ret.outcome = "returned"]_vars

\* C22 witness: the four stages have run to success, one call each, and the
\* quality check was the last.
C22_Witness ==
    /\ \A k \in DOMAIN StageTasks : dag.state[StageTasks[k]] = "success"
    /\ calls = Len(StageTasks)
    /\ ret.op = "data_quality_check" /\ ret.outcome = "returned"

\* The subclasses of requests.RequestException a call can raise.
RequestExceptions == {"RetryError", "ConnectionError", "HTTPError"}
Attempted(n) ==
    /\ Len(requests) <= n
    /\ \A i \in DOMAIN requests : requests[i].method = "GET"
    /\ loop.pc = "returned" =>
          /\ requests[Len(requests)].outcome = "200"
          /\ ~IsNull(loop.data)
    /\ loop.pc = "raised" =>
          /\ loop.exception \in RequestExceptions
          /\ IsNull(loop.data)
          /\ requests[Len(requests)].outcome # "200"
          /\ \/ Len(requests) = n
             \/ requests[Len(requests)].outcome \notin status_forcelist
    /\ loop.pc = "requesting" /\ requests # <<>> => Len(requests) < n

\* C24 as stated: a call makes at most max_retries attempts, all of them
\* GET, goes on to another attempt only after one of the five statuses,
\* returns records only from a 200 and otherwise raises a RequestException
\* with no records, after the last attempt allowed or a status not retried.
C24_AtMostMaxRetriesAttempts ==
    /\ Attempted(max_retries)
    /\ \A i \in 1..(Len(requests) - 1) : requests[i].outcome \in status_forcelist

\* C24, amended: a call makes at most max_retries + 1 attempts (the request
\* and max_retries retries of it), all of them GET, goes on to another
\* attempt only after one of the five statuses, a 413 carrying a Retry-After
\* header or a request that got no answer, returns records only from a 200
\* and otherwise raises a RequestException with no records.
C24_AtMostMaxRetriesRetries ==
    /\ Attempted(max_retries + 1)
    /\ \A i \in 1..(Len(requests) - 1) :
          \/ requests[i].outcome \in status_forcelist
          \/ requests[i].outcome \in {"413 Retry-After", "ConnectionError"}
    /\ loop.pc = "raised" /\ Len(requests) < max_retries + 1
          => requests[Len(requests)].outcome \notin {"413 Retry-After", "ConnectionError"}

\* C24 witness: a call has raised after max_retries + 1 attempts that all
\* met a 503.
C24_Witness ==
    /\ loop.pc = "raised" /\ loop.exception = "RetryError"
    /\ Len(requests) = max_retries + 1
    /\ \A i \in DOMAIN requests : requests[i].outcome = "503"

\* C21: every object a stage call adds to the bucket has, under the prefix
\* of its layer, the path that a data file of the layer has under the root
\* directory of the layer after the call.
C21_MirrorKeepsRelativePath ==
    [][\A b \in DOMAIN bucket'.objects \ DOMAIN bucket.objects :
          \E d \in Dates : b.file_name \in LocalFiles(b.layer_name, d)']_vars

\* The objects of the bucket under the prefix of the partition of date d of
\* a layer, relative to the prefix of the layer.
Mirrored(layer_name, d) ==
    {b.file_name : b \in {x \in list_blobs(bucket.objects, layer_name) :
                              x.file_name[1] = DatePartition(d)}}

\* C30: after a transformation or an aggregation has returned with a bucket
\* configured and its uploads gone through, the objects of the bucket under
\* the prefix of the partition written are the data files of the local
\* partition, and no other.
C30_MirrorHoldsLocalFilesOnly ==
    [][\A layer_name \in {"silver", "gold"}, d \in Dates :
          (/\ Called(IF layer_name = "silver" THEN "transform" ELSE "aggregate")
           /\ ret'.outcome = "returned" /\ ret'.date = d
           /\ bucket'.configured
           /\ LocalFiles(layer_name, d)' \subseteq Mirrored(layer_name, d)')
          => Mirrored(layer_name, d)' = LocalFiles(layer_name, d)']_vars

=============================================================================
